---- MODULE Spec2Model ----
(***************************************************************************)
(* Split-radix forward FFT over the complex extension of the Mersenne-31   *)
(* field: mersenne-31/src/split_radix/complex_forward.rs.                  *)
(*                                                                         *)
(* The butterflies and the unrolled kernels are straight-line code over    *)
(* 64-bit signed temporaries t1..t8.  Each body is transcribed statement   *)
(* by statement as a list of register instructions and executed by a small *)
(* interpreter, so that the order of in-place reads and writes is the      *)
(* order of the source.  Values of type Real are exact integers held in    *)
(* four radix-2^15 limbs, because P = 2^31 - 1 and the products of the     *)
(* general butterfly (up to 2P^2 - 2P) are beyond TLC's native integers.    *)
(***************************************************************************)
EXTENDS Integers, Sequences, FiniteSets, TLC

(***************************************************************************)
(* Real: exact integers.  <<d0, d1, d2, top>> stands for                   *)
(*   d0 + d1*2^15 + d2*2^30 + top*2^45,  0 <= d0,d1,d2 < 2^15, top signed. *)
(* The representation is unique; a signed 64-bit value has                 *)
(* -2^18 <= top < 2^18.                                                    *)
(***************************************************************************)
LimbBase == 32768

I64Top == 262144

\* Carry propagation: the limbs of s0 + s1*2^15 + s2*2^30 + s3*2^45.
Carry2(d0, d1, t2, s3) == << d0, d1, t2 % LimbBase, s3 + t2 \div LimbBase >>

Carry1(d0, t1, s2, s3) == Carry2(d0, t1 % LimbBase, s2 + t1 \div LimbBase, s3)

Carry(s0, s1, s2, s3) == Carry1(s0 % LimbBase, s1 + s0 \div LimbBase, s2, s3)

Big(n) == Carry(n, 0, 0, 0)

BAdd(x, y) == Carry(x[1] + y[1], x[2] + y[2], x[3] + y[3], x[4] + y[4])

BSub(x, y) == Carry(x[1] - y[1], x[2] - y[2], x[3] - y[3], x[4] - y[4])

BNeg(x) == Carry(-x[1], -x[2], -x[3], -x[4])

BIsNeg(x) == x[4] < 0

BAbs(x) == IF BIsNeg(x) THEN BNeg(x) ELSE x

BLeq(x, y) == ~BIsNeg(BSub(y, x))

\* x * d for a non-negative x and one limb d.
BRow(x, d) == Carry(x[1] * d, x[2] * d, x[3] * d, x[4] * d)

\* Product of two non-negative values.
\* The sum of the rows r0 + r1*2^15 + r2*2^30 + r3*2^45.
BSumRows(r0, r1, r2, r3) ==
    Carry(r0[1],
          r0[2] + r1[1],
          r0[3] + r1[2] + r2[1],
          r0[4] + r1[3] + r2[2] + r3[1]
            + LimbBase * (r1[4] + r2[3] + r3[2]
                + LimbBase * (r2[4] + r3[3] + LimbBase * r3[4])))

BMulNat(x, y) == BSumRows(BRow(x, y[1]), BRow(x, y[2]), BRow(x, y[3]), BRow(x, y[4]))

BSigned(m, neg) == IF neg THEN BNeg(m) ELSE m

BMul(x, y) == BSigned(BMulNat(BAbs(x), BAbs(y)), BIsNeg(x) # BIsNeg(y))

\* Whether the value fits a signed 64-bit accumulator.
InI64(x) == -I64Top <= x[4] /\ x[4] < I64Top

(***************************************************************************)
(* The field.                                                              *)
(***************************************************************************)
P == 2147483647

BP == Big(P)

\* 2^15; SQRTHALF * SQRTHALF = 2^30 = 1/2 (mod P).
SQRTHALF == 32768

\* r * 2^15 mod P for 0 <= r <= P: a rotation of the 31 bits.
Rot15(r) == (r \div 65536) + (r % 65536) * 32768

\* (x + y) mod P without leaving the native range, 0 <= x, y <= P.
FoldP(s) == IF s = P THEN 0 ELSE s

AddModP(x, y) == FoldP(IF x > P - y THEN x - (P - y) ELSE x + y)

\* The residue of x in 0 .. P-1, by Horner's rule over the limbs.
ModP(x) ==
    AddModP(Rot15(AddModP(Rot15(AddModP(Rot15(x[4] % P), x[3])), x[2])), x[1])

Congruent(x, y) == ModP(x) = ModP(y)

\* 0 <= x <= P: "essentially reduced".
Reduced(x) == ~BIsNeg(x) /\ BLeq(x, BP)

(***************************************************************************)
(* Reductions (split_radix/mod.rs).  normalise_u32 is the narrow reduce of *)
(* a sum of two reduced values: one conditional subtraction of P.          *)
(* normalise is the wide reduce of a 64-bit value to a representative in   *)
(* [0, P]; zero_rep is the representative it returns for the multiples of  *)
(* P (0 or P: both are "essentially reduced").                             *)
(***************************************************************************)
VARIABLES
    entry,      \* the function the caller invokes
    x,          \* the caller's buffer as passed in (0-indexed)
    w,          \* the twiddle <<wre, wim>> the caller passes to transform
    zero_rep,   \* representative of 0 mod P returned by the wide reduce
    a,          \* the buffer, mutated in place
    stack,      \* call stack, innermost frame first
    log,        \* history of the calls made so far
    pre,        \* values stored in a2, a3 ahead of the last wide reductions
    ovf,        \* some stored value did not fit a signed 64-bit accumulator
    lin,        \* scalars s, t and vectors u, v with x = s*u + t*v (mod P)
    run,        \* the run in progress: "main", or the name of a reference run
    out,        \* the buffer the function under test returned
    ref,        \* results of earlier reference runs
    build,      \* "debug" (debug assertions enabled) or "release"
    panic,      \* "none", or the kind of panic that unwound the stack
    sealed      \* the positions c4 has written in the run in progress

vars == << entry, x, w, zero_rep, a, stack, log, pre, ovf, lin, run, out, ref,
           build, panic, sealed >>

normalise_u32(v) == IF BLeq(v, BP) THEN v ELSE BSub(v, BP)

Representative(r) == IF r = 0 THEN Big(zero_rep) ELSE Big(r)

normalise_real(v) == Representative(ModP(v))

normalise(z) == [re |-> normalise_real(z.re), im |-> normalise_real(z.im)]

(***************************************************************************)
(* Registers of a straight-line body: the temporaries t1..t8, the twiddle  *)
(* arguments, the constant SQRTHALF, and the components of the complex     *)
(* arguments a0, a1, ... (a[0], a[1], ... in the kernels).                 *)
(***************************************************************************)
T(i) == i

WRE == 9

WIM == 10

KSQRTHALF == 11

Re(k) == 12 + 2 * k

Im(k) == 13 + 2 * k

NumRegs(n) == 11 + 2 * n

\* An instruction is <<op, dst, src1, src2>>.
Mov(d, s) == << "mov", d, s, s >>

Add(d, s1, s2) == << "add", d, s1, s2 >>

Sub(d, s1, s2) == << "sub", d, s1, s2 >>

Mul(d, s1, s2) == << "mul", d, s1, s2 >>

NormU32(d, s) == << "normalise_u32", d, s, s >>

Normalise(k) == << "normalise", k, k, k >>

Put(e, d, v) == [e EXCEPT !.r[d] = v, !.ovf = @ \/ ~InI64(v), !.pc = @ + 1]

Exec(ins, e) ==
    LET op == ins[1]
        d  == ins[2]
        s1 == e.r[ins[3]]
        s2 == e.r[ins[4]]
    IN  CASE op = "mov" -> Put(e, d, s1)
          [] op = "add" -> Put(e, d, BAdd(s1, s2))
          [] op = "sub" -> Put(e, d, BSub(s1, s2))
          [] op = "mul" -> Put(e, d, BMul(s1, s2))
          [] op = "normalise_u32" -> Put(e, d, normalise_u32(s1))
          [] op = "normalise" ->
                [e EXCEPT !.r[Re(d)] = normalise_real(@),
                          !.r[Im(d)] = normalise_real(@),
                          !.pre = Append(@, [re |-> e.r[Re(d)], im |-> e.r[Im(d)]]),
                          !.pc = @ + 1]

\* Execute from statement e.pc to the end of the body.
RECURSIVE RunFrom(_, _)
RunFrom(prog, e) ==
    IF e.pc > Len(prog) THEN e ELSE RunFrom(prog, Exec(prog[e.pc], e))

\* The registers on entry: the n complex arguments q (a sequence) and the twiddle.
Load(q, wre, wim) ==
    [r |-> [i \in 1 .. NumRegs(Len(q)) |->
                IF i = WRE THEN wre
                ELSE IF i = WIM THEN wim
                ELSE IF i = KSQRTHALF THEN Big(SQRTHALF)
                ELSE IF i <= 8 THEN Big(0)
                ELSE IF (i - 12) % 2 = 0 THEN q[(i - 12) \div 2 + 1].re
                ELSE q[(i - 13) \div 2 + 1].im],
     pre |-> << >>,
     ovf |-> FALSE,
     pc |-> 1]

\* The complex arguments on return.
Store(e, n) == [k \in 1 .. n |-> [re |-> e.r[Re(k - 1)], im |-> e.r[Im(k - 1)]]]

\* Run a body on the arguments q: [q |-> arguments on return, pre, ovf].
Result(e, n) == [q |-> Store(e, n), pre |-> e.pre, ovf |-> e.ovf]

Run(prog, q, wre, wim) == Result(RunFrom(prog, Load(q, wre, wim)), Len(q))

(***************************************************************************)
(* fn transform(a0, a1, a2, a3, wre, wim): lines 74-121.                   *)
(***************************************************************************)
transform_body == <<
    Mov(T(6), Re(2)),            \* let mut t6 = a2.re;
    Sub(T(1), Re(0), T(6)),      \* let mut t1 = a0.re - t6;
    Add(T(6), T(6), Re(0)),      \* t6 += a0.re;
    NormU32(Re(0), T(6)),        \* a0.re = normalise_u32(t6);
    Mov(T(3), Im(3)),            \* let mut t3 = a3.im;
    Sub(T(4), Im(1), T(3)),      \* let mut t4 = a1.im - t3;
    Sub(T(8), T(1), T(4)),       \* let mut t8 = t1 - t4;
    Add(T(1), T(1), T(4)),       \* t1 += t4;
    Add(T(3), T(3), Im(1)),      \* t3 += a1.im;
    NormU32(Im(1), T(3)),        \* a1.im = normalise_u32(t3);
    Mov(T(5), WRE),              \* let mut t5 = wre;
    Mul(T(7), T(8), T(5)),       \* let mut t7 = t8 * t5;
    Mul(T(4), T(1), T(5)),       \* t4 = t1 * t5;
    Mul(T(8), T(8), WIM),        \* t8 *= wim;
    Mov(T(2), Re(3)),            \* let mut t2 = a3.re;
    Sub(T(3), Re(1), T(2)),      \* t3 = a1.re - t2;
    Add(T(2), T(2), Re(1)),      \* t2 += a1.re;
    NormU32(Re(1), T(2)),        \* a1.re = normalise_u32(t2);
    Mul(T(1), T(1), WIM),        \* t1 *= wim;
    Mov(T(6), Im(2)),            \* t6 = a2.im;
    Sub(T(2), Im(0), T(6)),      \* t2 = a0.im - t6;
    Add(T(6), T(6), Im(0)),      \* t6 += a0.im;
    NormU32(Im(0), T(6)),        \* a0.im = normalise_u32(t6);
    Add(T(6), T(2), T(3)),       \* t6 = t2 + t3;
    Sub(T(2), T(2), T(3)),       \* t2 -= t3;
    Mul(T(3), T(6), WIM),        \* t3 = t6 * wim;
    Sub(T(7), T(7), T(3)),       \* t7 -= t3;
    Mov(Re(2), T(7)),            \* a2.re = t7;
    Mul(T(6), T(6), T(5)),       \* t6 *= t5;
    Add(T(6), T(6), T(8)),       \* t6 += t8;
    Mov(Im(2), T(6)),            \* a2.im = t6;
    Normalise(2),                \* normalise(a2);
    Mul(T(5), T(5), T(2)),       \* t5 *= t2;
    Sub(T(5), T(5), T(1)),       \* t5 -= t1;
    Mov(Im(3), T(5)),            \* a3.im = t5;
    Mul(T(2), T(2), WIM),        \* t2 *= wim;
    Add(T(4), T(4), T(2)),       \* t4 += t2;
    Mov(Re(3), T(4)),            \* a3.re = t4;
    Normalise(3) >>              \* normalise(a3);

\* transform storing a0.re without the narrow reduction (statement 4).
transform_unreduced(q, wre, wim) ==
    Run([transform_body EXCEPT ![4] = Mov(Re(0), T(6))], q, wre, wim)

\* transform with "t3 = a1.re + t2" for "t3 = a1.re - t2" (statement 16).
transform_sign(q, wre, wim) ==
    Run([transform_body EXCEPT ![16] = Add(T(3), Re(1), T(2))], q, wre, wim)

transform(q, wre, wim) == Run(transform_body, q, wre, wim)

(***************************************************************************)
(* fn transformhalf(a0, a1, a2, a3): lines 153-192.                        *)
(***************************************************************************)
transformhalf_body == <<
    Mov(T(1), Re(2)),            \* let mut t1 = a2.re;
    Sub(T(5), Re(0), T(1)),      \* let mut t5 = a0.re - t1;
    Add(T(1), T(1), Re(0)),      \* t1 += a0.re;
    NormU32(Re(0), T(1)),        \* a0.re = normalise_u32(t1);
    Mov(T(4), Im(3)),            \* let mut t4 = a3.im;
    Sub(T(8), Im(1), T(4)),      \* let mut t8 = a1.im - t4;
    Sub(T(1), T(5), T(8)),       \* t1 = t5 - t8;
    Add(T(5), T(5), T(8)),       \* t5 += t8;
    Add(T(4), T(4), Im(1)),      \* t4 += a1.im;
    NormU32(Im(1), T(4)),        \* a1.im = normalise_u32(t4);
    Mov(T(3), Re(3)),            \* let mut t3 = a3.re;
    Sub(T(7), Re(1), T(3)),      \* let mut t7 = a1.re - t3;
    Add(T(3), T(3), Re(1)),      \* t3 += a1.re;
    NormU32(Re(1), T(3)),        \* a1.re = normalise_u32(t3);
    Mov(T(8), Im(2)),            \* t8 = a2.im;
    Sub(T(6), Im(0), T(8)),      \* let mut t6 = a0.im - t8;
    Add(T(2), T(6), T(7)),       \* let mut t2 = t6 + t7;
    Sub(T(6), T(6), T(7)),       \* t6 -= t7;
    Add(T(8), T(8), Im(0)),      \* t8 += a0.im;
    NormU32(Im(0), T(8)),        \* a0.im = normalise_u32(t8);
    Add(T(4), T(6), T(5)),       \* t4 = t6 + t5;
    Mov(T(3), KSQRTHALF),        \* t3 = SQRTHALF;
    Mul(T(4), T(4), T(3)),       \* t4 *= t3;
    Mov(Re(3), T(4)),            \* a3.re = t4;
    Sub(T(6), T(6), T(5)),       \* t6 -= t5;
    Mul(T(6), T(6), T(3)),       \* t6 *= t3;
    Mov(Im(3), T(6)),            \* a3.im = t6;
    Normalise(3),                \* normalise(a3);
    Sub(T(7), T(1), T(2)),       \* t7 = t1 - t2;
    Mul(T(7), T(7), T(3)),       \* t7 *= t3;
    Mov(Re(2), T(7)),            \* a2.re = t7;
    Add(T(2), T(2), T(1)),       \* t2 += t1;
    Mul(T(2), T(2), T(3)),       \* t2 *= t3;
    Mov(Im(2), T(2)),            \* a2.im = t2;
    Normalise(2) >>              \* normalise(a2);

\* transformhalf with "t7 = t1 + t2" for "t7 = t1 - t2" (statement 29).
transformhalf_sign(q) ==
    Run([transformhalf_body EXCEPT ![29] = Add(T(7), T(1), T(2))], q, Big(0), Big(0))

transformhalf(q) == Run(transformhalf_body, q, Big(0), Big(0))

(***************************************************************************)
(* fn transformzero(a0, a1, a2, a3): lines 214-244.                        *)
(***************************************************************************)
transformzero_body == <<
    Mov(T(5), Re(2)),            \* let mut t5 = a2.re;
    Sub(T(1), Re(0), T(5)),      \* let mut t1 = a0.re - t5;
    Add(T(5), T(5), Re(0)),      \* t5 += a0.re;
    NormU32(Re(0), T(5)),        \* a0.re = normalise_u32(t5);
    Mov(T(8), Im(3)),            \* let mut t8 = a3.im;
    Sub(T(4), Im(1), T(8)),      \* let t4 = a1.im - t8;
    Mov(T(7), Re(3)),            \* let mut t7 = a3.re;
    Sub(T(6), T(1), T(4)),       \* let mut t6 = t1 - t4;
    Mov(Re(2), T(6)),            \* a2.re = t6;
    Add(T(1), T(1), T(4)),       \* t1 += t4;
    Mov(Re(3), T(1)),            \* a3.re = t1;
    Add(T(8), T(8), Im(1)),      \* t8 += a1.im;
    NormU32(Im(1), T(8)),        \* a1.im = normalise_u32(t8);
    Sub(T(3), Re(1), T(7)),      \* let t3 = a1.re - t7;
    Add(T(7), T(7), Re(1)),      \* t7 += a1.re;
    NormU32(Re(1), T(7)),        \* a1.re = normalise_u32(t7);
    Mov(T(6), Im(2)),            \* t6 = a2.im;
    Sub(T(2), Im(0), T(6)),      \* let mut t2 = a0.im - t6;
    Add(T(7), T(2), T(3)),       \* t7 = t2 + t3;
    Mov(Im(2), T(7)),            \* a2.im = t7;
    Normalise(2),                \* normalise(a2);
    Sub(T(2), T(2), T(3)),       \* t2 -= t3;
    Mov(Im(3), T(2)),            \* a3.im = t2;
    Normalise(3),                \* normalise(a3);
    Add(T(6), T(6), Im(0)),      \* t6 += a0.im;
    NormU32(Im(0), T(6)) >>      \* a0.im = normalise_u32(t6);

transformzero(q) == Run(transformzero_body, q, Big(0), Big(0))

(***************************************************************************)
(* fn c2(a): the radix-2 butterfly, lines 254-265 (kept in the source as a *)
(* comment; c8 inlines it without the reduction).                          *)
(***************************************************************************)
c2_body == <<
    Mov(T(1), Re(1)),            \* let t1 = a[1].re;
    Sub(Re(1), Re(0), T(1)),     \* a[1].re = a[0].re - t1;
    Add(Re(0), Re(0), T(1)),     \* a[0].re += t1;
    Mov(T(1), Im(1)),            \* let t1 = a[1].im;
    Sub(Im(1), Im(0), T(1)),     \* a[1].im = a[0].im - t1;
    Add(Im(0), Im(0), T(1)),     \* a[0].im += t1;
    Normalise(0),                \* normalise_all(a);
    Normalise(1) >>

(***************************************************************************)
(* pub(crate) fn c4(a): lines 341-365.  No reduction is applied.          *)
(***************************************************************************)
c4_body == <<
    Mov(T(5), Re(2)),            \* let mut t5 = a[2].re;
    Sub(T(1), Re(0), T(5)),      \* let mut t1 = a[0].re - t5;
    Mov(T(7), Re(3)),            \* let mut t7 = a[3].re;
    Add(T(5), T(5), Re(0)),      \* t5 += a[0].re;
    Sub(T(3), Re(1), T(7)),      \* let t3 = a[1].re - t7;
    Add(T(7), T(7), Re(1)),      \* t7 += a[1].re;
    Add(T(8), T(5), T(7)),       \* let t8 = t5 + t7;
    Mov(Re(0), T(8)),            \* a[0].re = t8;
    Sub(T(5), T(5), T(7)),       \* t5 -= t7;
    Mov(Re(1), T(5)),            \* a[1].re = t5;
    Mov(T(6), Im(2)),            \* let mut t6 = a[2].im;
    Sub(T(2), Im(0), T(6)),      \* let mut t2 = a[0].im - t6;
    Add(T(6), T(6), Im(0)),      \* t6 += a[0].im;
    Mov(T(5), Im(3)),            \* t5 = a[3].im;
    Add(Im(2), T(2), T(3)),      \* a[2].im = t2 + t3;
    Sub(T(2), T(2), T(3)),       \* t2 -= t3;
    Mov(Im(3), T(2)),            \* a[3].im = t2;
    Sub(T(4), Im(1), T(5)),      \* let t4 = a[1].im - t5;
    Add(Re(3), T(1), T(4)),      \* a[3].re = t1 + t4;
    Sub(T(1), T(1), T(4)),       \* t1 -= t4;
    Mov(Re(2), T(1)),            \* a[2].re = t1;
    Add(T(5), T(5), Im(1)),      \* t5 += a[1].im;
    Add(Im(0), T(6), T(5)),      \* a[0].im = t6 + t5;
    Sub(T(6), T(6), T(5)),       \* t6 -= t5;
    Mov(Im(1), T(6)) >>          \* a[1].im = t6;

(***************************************************************************)
(* pub(crate) fn c8(a): the unrolled stage, lines 373-447.                 *)
(***************************************************************************)
c8_body == <<
    Mov(T(7), Im(4)),            \* let mut t7 = a[4].im;
    Sub(T(4), Im(0), T(7)),      \* let mut t4 = a[0].im - t7;
    Add(T(7), T(7), Im(0)),      \* t7 += a[0].im;
    Mov(Im(0), T(7)),            \* a[0].im = t7;
    Mov(T(8), Re(6)),            \* let mut t8 = a[6].re;
    Sub(T(5), Re(2), T(8)),      \* let mut t5 = a[2].re - t8;
    Add(T(8), T(8), Re(2)),      \* t8 += a[2].re;
    Mov(Re(2), T(8)),            \* a[2].re = t8;
    Mov(T(7), Im(6)),            \* t7 = a[6].im;
    Sub(Im(6), T(4), T(5)),      \* a[6].im = t4 - t5;
    Add(T(4), T(4), T(5)),       \* t4 += t5;
    Mov(Im(4), T(4)),            \* a[4].im = t4;
    Sub(T(6), Im(2), T(7)),      \* let mut t6 = a[2].im - t7;
    Add(T(7), T(7), Im(2)),      \* t7 += a[2].im;
    Mov(Im(2), T(7)),            \* a[2].im = t7;
    Mov(T(8), Re(4)),            \* t8 = a[4].re;
    Sub(T(3), Re(0), T(8)),      \* let mut t3 = a[0].re - t8;
    Add(T(8), T(8), Re(0)),      \* t8 += a[0].re;
    Mov(Re(0), T(8)),            \* a[0].re = t8;
    Sub(Re(4), T(3), T(6)),      \* a[4].re = t3 - t6;
    Add(T(3), T(3), T(6)),       \* t3 += t6;
    Mov(Re(6), T(3)),            \* a[6].re = t3;
    Mov(T(7), Re(5)),            \* t7 = a[5].re;
    Sub(T(3), Re(1), T(7)),      \* t3 = a[1].re - t7;
    Add(T(7), T(7), Re(1)),      \* t7 += a[1].re;
    Mov(Re(1), T(7)),            \* a[1].re = t7;
    Mov(T(8), Im(7)),            \* t8 = a[7].im;
    Sub(T(6), Im(3), T(8)),      \* t6 = a[3].im - t8;
    Add(T(8), T(8), Im(3)),      \* t8 += a[3].im;
    Mov(Im(3), T(8)),            \* a[3].im = t8;
    Sub(T(1), T(3), T(6)),       \* let mut t1 = t3 - t6;
    Add(T(3), T(3), T(6)),       \* t3 += t6;
    Mov(T(7), Im(5)),            \* t7 = a[5].im;
    Sub(T(4), Im(1), T(7)),      \* t4 = a[1].im - t7;
    Add(T(7), T(7), Im(1)),      \* t7 += a[1].im;
    Mov(Im(1), T(7)),            \* a[1].im = t7;
    Mov(T(8), Re(7)),            \* t8 = a[7].re;
    Sub(T(5), Re(3), T(8)),      \* t5 = a[3].re - t8;
    Add(T(8), T(8), Re(3)),      \* t8 += a[3].re;
    Mov(Re(3), T(8)),            \* a[3].re = t8;
    Sub(T(2), T(4), T(5)),       \* let mut t2 = t4 - t5;
    Add(T(4), T(4), T(5)),       \* t4 += t5;
    Sub(T(6), T(1), T(4)),       \* t6 = t1 - t4;
    Mov(T(8), KSQRTHALF),        \* t8 = SQRTHALF;
    Mul(T(6), T(6), T(8)),       \* t6 *= t8;
    Sub(Re(5), Re(4), T(6)),     \* a[5].re = a[4].re - t6;
    Add(T(1), T(1), T(4)),       \* t1 += t4;
    Mul(T(1), T(1), T(8)),       \* t1 *= t8;
    Sub(Im(5), Im(4), T(1)),     \* a[5].im = a[4].im - t1;
    Add(T(6), T(6), Re(4)),      \* t6 += a[4].re;
    Mov(Re(4), T(6)),            \* a[4].re = t6;
    Add(T(1), T(1), Im(4)),      \* t1 += a[4].im;
    Mov(Im(4), T(1)),            \* a[4].im = t1;
    Sub(T(5), T(2), T(3)),       \* t5 = t2 - t3;
    Mul(T(5), T(5), T(8)),       \* t5 *= t8;
    Sub(Im(7), Im(6), T(5)),     \* a[7].im = a[6].im - t5;
    Add(T(2), T(2), T(3)),       \* t2 += t3;
    Mul(T(2), T(2), T(8)),       \* t2 *= t8;
    Sub(Re(7), Re(6), T(2)),     \* a[7].re = a[6].re - t2;
    Add(T(2), T(2), Re(6)),      \* t2 += a[6].re;
    Mov(Re(6), T(2)),            \* a[6].re = t2;
    Add(T(5), T(5), Im(6)),      \* t5 += a[6].im;
    Mov(Im(6), T(5)) >>          \* a[6].im = t5;

(***************************************************************************)
(* Twiddle tables (split_radix/roots.rs): D_N holds the powers w^1 ..      *)
(* w^(N/4 - 1) of a primitive N-th root of unity w of the circle group of  *)
(* F_P[i], in balanced representation, with D16[1] = (SQRTHALF, SQRTHALF). *)
(***************************************************************************)
HalfP == 1073741823

\* The powers w^1 .. w^1023 of the 4096-th root of unity w, flattened as
\* re, im, re, im, ...; w^512 = (SQRTHALF, SQRTHALF) and w^1024 = i.
Circle == <<
    588434843, -863762067, -183251431, 605622498, 646213083, -831476608,
    824292393, -210509587, -108641373, -24054840, 287754027, -304579394,
    870057820, 841184532, -328267072, 484667533, -367429788, -47086083,
    -307417487, -776584191, 634852015, 456425720, -402099265, 942918913,
    -780234423, 583675770, -961416627, -723263661, -914840469, 517808321,
    736262640, 593814437, -270654573, 108944800, 971687468, 161595317,
    968734253, 690156244, 327982285, -202176565, -885841877, 227866852,
    150841245, -191825422, -613898793, 369832675, -914097328, -226571076,
    608958606, -831573757, 845849227, 937925053, 710187677, 997507243,
    -756105750, 1051518090, 925070583, 296614246, -699919804, -881537256,
    -1005143651, -200954120, -373229752, 838195206, -1047722595, -404708331,
    -405009166, 580271826, -529302822, -282585615, 672775513, 499205677,
    -193579894, -538351903, -935057748, -1045176549, 228916482, -488631736,
    578660954, 152276873, 485116745, 418284742, 971573761, 99096581,
    187556091, 109526187, 358859723, -962257603, 964242608, 560156510,
    489250941, 608020784, 716771012, 14339853, -1014093253, 10472466,
    -1002664045, -866470580, 497332053, -436869964, -667899701, -826583232,
    -1000882537, 614612204, -405246640, 277865259, -858651817, 411911438,
    503366787, 42377256, -944571042, 167450866, 350482264, -318936776,
    -713649841, -589627236, 1060430970, -304309066, 172817743, -1024618173,
    -965246858, 912953978, -483000163, -474908833, -835337550, -276636463,
    -579625837, -456695729, 675960951, 5984804, 252876865, 815647497,
    393787689, 869107803, 38417411, -506023947, 693915940, -941197303,
    -986818356, 67281710, -76677498, -716346231, -939702037, -378535762,
    1013627704, -645615217, 370490213, -22852792, 112790651, -869618086,
    -755495931, 478680713, 720105278, -442575921, 874682404, 632096738,
    943993029, -722051615, -48903418, -250538254, -695839670, -766249843,
    -331345608, 252664940, 196047235, 331071866, 80908896, 639814482,
    -505405055, -327810224, -505392533, -23190583, 810343796, 702238641,
    749197810, 543822408, 545491827, -876500106, -610554, 212671234,
    693561035, 710451492, -904293309, -989947986, 385357684, -385770354,
    -322369894, -1022457734, 405329267, -51571170, 1038945916, 134155457,
    561586750, -1042331138, 581552364, 311506047, 538520711, -300774657,
    -877294821, 646472173, 598372175, -799308877, 798585842, 373674889,
    -671648967, 1047841043, -660017901, 806637293, 56943248, 37197632,
    343423099, -844077556, -282574120, 451994386, -293881126, 116984891,
    -587486758, 307800450, 599944782, 473189316, 1068477053, 626516118,
    477953613, 125103457, -815508864, 304549768, 847019487, -339057893,
    -33937003, -564203684, 383956264, 621205469, -992347850, -889125072,
    291463630, -646989254, 633841246, -376363923, 482535559, -776881039,
    56962429, -134635855, 537703188, -247853285, -618000077, 439964450,
    -311689836, 712777190, 811311458, -812279519, -95898502, -1073364905,
    247489314, 546897790, -967747991, 906276279, 424276694, -593567753,
    1659795, -630678812, 133468241, 831783293, -957399609, 938665521,
    23529063, -154763830, -44811793, -382154906, 629485005, -986665071,
    -793810598, 252929270, -799502303, 181966701, 32139071, 352202138,
    717495476, 119828717, 910717687, 557591127, -342736375, -470231738,
    -22550131, 103025920, -991572137, 534670772, -812986380, 61740007,
    973109048, 424536496, -543258233, -208874950, 662272007, -1052842208,
    -665711726, -354138878, 691115186, -93814931, 494423956, -503440359,
    -286767986, -513820856, 472916039, 952794586, -897638101, 522927853,
    60470733, 12850649, -86965865, -1036765848, -227683315, 415206260,
    -735138967, -587827531, -178483918, -804088985, 87679029, 601035234,
    404685994, -7144319, 250484331, 142184035, 1028789783, 238744745,
    816867225, -1001272228, -1066848801, -229044792, 212279506, -331619186,
    -855637496, -144960382, 298396195, -5704135, -222277859, -278287463,
    -392406075, 361548115, -562891145, 821845974, 900575658, 108816532,
    -440454181, 428162150, -682577581, 871002989, 492216734, -418999439,
    -323350782, 711152552, 632870252, -870936612, -423394391, -506310913,
    399820068, -1066687403, -692176346, 1020461522, 375548322, 652224438,
    346524002, -987983303, -409036891, -777615839, -937825374, 379070214,
    994833177, -430821412, -818449550, -965637075, -838178059, 645320786,
    -842696663, -475114999, 566492308, 767685501, 124028105, 701250570,
    -185606795, -871973587, -668797459, -47229739, 280947147, -1013961365,
    489985854, -1072553992, -807215459, 91019801, 432167898, 730276767,
    1029266181, 863739844, 411746867, -707594430, 72520911, -735676105,
    -280795915, 748294037, -834535867, -222141861, 173178473, -874958199,
    -763141024, 903851705, 337464206, -194850041, -218795070, 274969508,
    144964559, 907588736, 750728830, 37832399, 443253786, 548596861,
    -1054411686, 648593218, 72309648, -127138385, -768395708, -810204723,
    722718649, 215018081, -166192302, -816845371, 804839288, 869002309,
    240575056, 907898048, 248317868, -592887340, -528066207, 951582730,
    91014998, -558622651, -142353972, 431004280, -1021883743, 729761208,
    -143051046, 499966977, -645526002, -163628149, -599770142, 878021460,
    -530904682, 385494159, -350742286, 883753057, 156879032, -173950722,
    -1038647570, 830026890, -336740193, -875709471, 1001031510, -308816680,
    505194285, 154767783, -6652064, 468595421, 4306665, -351244159,
    -36557796, -355239363, -777857221, -171657813, -151625244, 80016035,
    -325390167, -254065377, 893042083, -75244103, -162167819, 326913750,
    315710516, -670299624, -629444410, 951923399, 479120236, 225856549,
    521164585, -452269520, 899447368, -926140795, -406560988, 1006867142,
    508995768, 89405266, 971173319, -821797483, -453306347, -202261465,
    -991740252, -672360499, -13610297, -1064696601, 834528407, 314844045,
    -413480885, 839229628, -100455393, 559111754, 406471944, 1050440434,
    562182026, 948918979, 640487097, 180537048, -7224870, -838267675,
    590768354, -978592373, -413184613, -629493367, -355946256, 602970986,
    -920200686, -295474957, -604154153, -385164898, -986408105, -420849488,
    881039712, 331822421, 68306050, -528146694, 735494074, 653278886,
    -348644144, -747934473, -367142675, 771158281, 632162535, -937858337,
    -268098645, 951261442, -118152248, -433148991, -664371607, 568454352,
    548176923, 914143749, 197700101, 1067683608, -775515335, 520036798,
    858122973, 688798405, -379221550, 445604569, -844222273, -269141577,
    451140982, -708510784, 709065659, 933261873, -965556376, 281533406,
    -752064346, -655387905, 330623826, 590615857, -652305527, 641819564,
    476718934, 180557027, 773269826, -650162669, 1044363195, 39788576,
    -641993839, 624005278, -1059389700, 131929016, 212443077, 206059115,
    454195029, -293385887, -476376938, -666458133, 617369541, -381590713,
    225285446, 694966700, -936612201, 41162648, 975311156, 531226067,
    -271752159, -678910279, 750098750, 749414350, 616557430, -487837148,
    663241844, 986175545, -438377531, -107381715, 76236136, 382117576,
    -586336283, -223601085, 1007165928, -96763266, 815758523, 720407523,
    -640817200, 445356670, 944487198, -875660871, 1051111168, -136861058,
    -668483907, 598168203, 330498905, -535895406, 256542848, 1011064762,
    160204899, -623698780, -663169492, 636501625, 810533124, -839591040,
    977607645, 716161705, 117627001, 231485484, -591761826, -445070664,
    -43716395, -576681506, 1069335881, 471690811, -598026928, 37866102,
    -610607801, 1000561954, 194696271, -567259857, 627103058, -796140812,
    -850345737, 270805225, -529944271, 610229656, -133640314, 76248066,
    -451366540, 319810071, 497251457, -850319468, -3205719, -207451962,
    293249438, -509684486, 156491442, -498224766, 249739589, 146937336,
    231561668, -74133621, -928236221, 552988546, 503059345, 472488427,
    884758592, 275240809, -380385130, 441779441, 849605071, 583555490,
    827660061, -575880617, 445088861, 118928976, 308284219, 519218022,
    941653828, -71676870, 220150826, 613101361, 723947375, -883937929,
    311164457, -919022832, -44375510, -775814313, 271454578, 435491360,
    189056092, -155003484, 45086947, 505553003, 500380354, 269176336,
    435844354, -845222817, 90196877, 280440599, -764995736, -1006369163,
    9803698, 68458636, -116676339, -416718489, 273433967, -52058806,
    286175525, 442103608, 801147693, 608983470, 461323525, -434653027,
    -439155617, -805698857, 806087082, -249648300, -820980485, -784964762,
    -34942904, -962392695, 903249782, 431864698, 168797082, 178433737,
    675922742, -481825426, 798189752, -931928517, 769676075, -609850350,
    812929870, -960225101, -236104903, -570012707, 512058564, 819012871,
    -79264564, -297371516, 195514251, 912361369, -827893883, 609228044,
    -959401495, -706501728, -898853143, 483552492, 331799345, -61225600,
    -416817213, 36815260, -290526538, 1058955348, 11167373, 960795675,
    -1038583762, -1001485663, 301727458, 734695164, -924370551, -949365151,
    -147105150, -598235727, -379161111, 158317739, 34602070, -732393395,
    827338585, 835841575, 979909198, -99501501, 490831857, 69263558,
    230496232, -271138064, 841643363, -553107215, -518549177, -771969325,
    -434701473, -949613716, -763629963, 369838865, -446328999, -1057440713,
    235137743, -741722128, 3313627, -117245479, -964510742, -291147300,
    209214553, 488415131, -260235705, 224544434, 822337931, 561757501,
    -170449934, 141956360, -980818680, -453797288, -586596361, 289736590,
    699264852, 2869923, -477465227, -682662013, 318048793, 803394615,
    -817667543, -382220600, 1021838748, 631767341, 503318717, -820860779,
    505812588, -720201341, 599639519, -801859244, -108989434, -171027633,
    -159124930, 345417005, -607973844, -792448505, -21646021, -902393831,
    907928408, -333422694, 228509164, 14530030, -171404010, -542467268,
    -947277864, 1058023866, -637468678, 1030958582, 368578328, -28670693,
    -1007168592, 584285950, -452719452, -905841846, 460614725, -268512062,
    -165851886, -472576962, 378722856, -958298510, 991551614, 391177026,
    308825686, 253261162, 785984245, -477700432, 427728747, -670795788,
    919731023, -630858447, 611002586, 803111986, -251924953, -636875771,
    -950858437, -378379442, -805086768, -937357706, -511274869, 230147405,
    289861504, -88230288, -580234524, 789625486, -1017736007, -133261454,
    912496111, 81060582, 617361773, 605970061, 898060475, -922835423,
    -33765071, -623984340, -459902653, -326246026, -235150303, -1039720332,
    549604166, 409396139, 832913328, -425992587, -716330842, 53061615,
    -26164677, 505542828, -809419335, -219128141, 1006487271, -996212859,
    158858466, -151154675, -951530181, 906381151, -1063768814, 602034520,
    -923454894, -933660516, 742916577, -1022351385, 187158958, -231359048,
    844472455, 304978810, 607282527, -551275451, 675117160, -988653751,
    -37656326, -1059774538, 337644, 684034421, -905673829, -447694929,
    577704087, -316442654, -81378258, 789857006, -286741612, 534489566,
    81183079, -609847060, 1040669404, -290908138, -259793911, -750301505,
    248713653, -769129305, 285425617, -117558271, -402147879, -482245636,
    485600145, 224958826, 128249989, -178443579, 48433656, 600344208,
    -843754400, -422275955, 29574619, 999688792, -932884580, 846491979,
    635570802, -418396858, -723998354, 818141612, -408478793, 262191051,
    877279260, 89280529, -257056323, 563481299, 925812945, 1036559733,
    -784723556, -324037566, 765748681, -319230240, 505702994, 73857667,
    348680891, -473573923, -469386237, 390715141, -329453196, 964281693,
    -792232561, -690645907, 210196680, 329465246, -766769280, -897507430,
    -729750815, -508784485, -1024408691, 54243401, -1063684515, -486971040,
    785043271, -886732674, -493492138, -1043027300, -389047402, 159183310,
    -530484151, 820457140, 543170620, -748769323, -908869364, -925136221,
    960020323, -180872201, -21993653, -122458904, 1034324306, -853979252,
    1043883519, -920387143, 569671423, 624337742, 464877591, 669874933,
    -896850794, -375505490, 221082869, -525477868, -276981459, -560246533,
    -343674985, -501786993, 32768, 32768, -501786993, -343674985,
    -560246533, -276981459, -525477868, 221082869, -375505490, -896850794,
    669874933, 464877591, 624337742, 569671423, -920387143, 1043883519,
    -853979252, 1034324306, -122458904, -21993653, -180872201, 960020323,
    -925136221, -908869364, -748769323, 543170620, 820457140, -530484151,
    159183310, -389047402, -1043027300, -493492138, -886732674, 785043271,
    -486971040, -1063684515, 54243401, -1024408691, -508784485, -729750815,
    -897507430, -766769280, 329465246, 210196680, -690645907, -792232561,
    964281693, -329453196, 390715141, -469386237, -473573923, 348680891,
    73857667, 505702994, -319230240, 765748681, -324037566, -784723556,
    1036559733, 925812945, 563481299, -257056323, 89280529, 877279260,
    262191051, -408478793, 818141612, -723998354, -418396858, 635570802,
    846491979, -932884580, 999688792, 29574619, -422275955, -843754400,
    600344208, 48433656, -178443579, 128249989, 224958826, 485600145,
    -482245636, -402147879, -117558271, 285425617, -769129305, 248713653,
    -750301505, -259793911, -290908138, 1040669404, -609847060, 81183079,
    534489566, -286741612, 789857006, -81378258, -316442654, 577704087,
    -447694929, -905673829, 684034421, 337644, -1059774538, -37656326,
    -988653751, 675117160, -551275451, 607282527, 304978810, 844472455,
    -231359048, 187158958, -1022351385, 742916577, -933660516, -923454894,
    602034520, -1063768814, 906381151, -951530181, -151154675, 158858466,
    -996212859, 1006487271, -219128141, -809419335, 505542828, -26164677,
    53061615, -716330842, -425992587, 832913328, 409396139, 549604166,
    -1039720332, -235150303, -326246026, -459902653, -623984340, -33765071,
    -922835423, 898060475, 605970061, 617361773, 81060582, 912496111,
    -133261454, -1017736007, 789625486, -580234524, -88230288, 289861504,
    230147405, -511274869, -937357706, -805086768, -378379442, -950858437,
    -636875771, -251924953, 803111986, 611002586, -630858447, 919731023,
    -670795788, 427728747, -477700432, 785984245, 253261162, 308825686,
    391177026, 991551614, -958298510, 378722856, -472576962, -165851886,
    -268512062, 460614725, -905841846, -452719452, 584285950, -1007168592,
    -28670693, 368578328, 1030958582, -637468678, 1058023866, -947277864,
    -542467268, -171404010, 14530030, 228509164, -333422694, 907928408,
    -902393831, -21646021, -792448505, -607973844, 345417005, -159124930,
    -171027633, -108989434, -801859244, 599639519, -720201341, 505812588,
    -820860779, 503318717, 631767341, 1021838748, -382220600, -817667543,
    803394615, 318048793, -682662013, -477465227, 2869923, 699264852,
    289736590, -586596361, -453797288, -980818680, 141956360, -170449934,
    561757501, 822337931, 224544434, -260235705, 488415131, 209214553,
    -291147300, -964510742, -117245479, 3313627, -741722128, 235137743,
    -1057440713, -446328999, 369838865, -763629963, -949613716, -434701473,
    -771969325, -518549177, -553107215, 841643363, -271138064, 230496232,
    69263558, 490831857, -99501501, 979909198, 835841575, 827338585,
    -732393395, 34602070, 158317739, -379161111, -598235727, -147105150,
    -949365151, -924370551, 734695164, 301727458, -1001485663, -1038583762,
    960795675, 11167373, 1058955348, -290526538, 36815260, -416817213,
    -61225600, 331799345, 483552492, -898853143, -706501728, -959401495,
    609228044, -827893883, 912361369, 195514251, -297371516, -79264564,
    819012871, 512058564, -570012707, -236104903, -960225101, 812929870,
    -609850350, 769676075, -931928517, 798189752, -481825426, 675922742,
    178433737, 168797082, 431864698, 903249782, -962392695, -34942904,
    -784964762, -820980485, -249648300, 806087082, -805698857, -439155617,
    -434653027, 461323525, 608983470, 801147693, 442103608, 286175525,
    -52058806, 273433967, -416718489, -116676339, 68458636, 9803698,
    -1006369163, -764995736, 280440599, 90196877, -845222817, 435844354,
    269176336, 500380354, 505553003, 45086947, -155003484, 189056092,
    435491360, 271454578, -775814313, -44375510, -919022832, 311164457,
    -883937929, 723947375, 613101361, 220150826, -71676870, 941653828,
    519218022, 308284219, 118928976, 445088861, -575880617, 827660061,
    583555490, 849605071, 441779441, -380385130, 275240809, 884758592,
    472488427, 503059345, 552988546, -928236221, -74133621, 231561668,
    146937336, 249739589, -498224766, 156491442, -509684486, 293249438,
    -207451962, -3205719, -850319468, 497251457, 319810071, -451366540,
    76248066, -133640314, 610229656, -529944271, 270805225, -850345737,
    -796140812, 627103058, -567259857, 194696271, 1000561954, -610607801,
    37866102, -598026928, 471690811, 1069335881, -576681506, -43716395,
    -445070664, -591761826, 231485484, 117627001, 716161705, 977607645,
    -839591040, 810533124, 636501625, -663169492, -623698780, 160204899,
    1011064762, 256542848, -535895406, 330498905, 598168203, -668483907,
    -136861058, 1051111168, -875660871, 944487198, 445356670, -640817200,
    720407523, 815758523, -96763266, 1007165928, -223601085, -586336283,
    382117576, 76236136, -107381715, -438377531, 986175545, 663241844,
    -487837148, 616557430, 749414350, 750098750, -678910279, -271752159,
    531226067, 975311156, 41162648, -936612201, 694966700, 225285446,
    -381590713, 617369541, -666458133, -476376938, -293385887, 454195029,
    206059115, 212443077, 131929016, -1059389700, 624005278, -641993839,
    39788576, 1044363195, -650162669, 773269826, 180557027, 476718934,
    641819564, -652305527, 590615857, 330623826, -655387905, -752064346,
    281533406, -965556376, 933261873, 709065659, -708510784, 451140982,
    -269141577, -844222273, 445604569, -379221550, 688798405, 858122973,
    520036798, -775515335, 1067683608, 197700101, 914143749, 548176923,
    568454352, -664371607, -433148991, -118152248, 951261442, -268098645,
    -937858337, 632162535, 771158281, -367142675, -747934473, -348644144,
    653278886, 735494074, -528146694, 68306050, 331822421, 881039712,
    -420849488, -986408105, -385164898, -604154153, -295474957, -920200686,
    602970986, -355946256, -629493367, -413184613, -978592373, 590768354,
    -838267675, -7224870, 180537048, 640487097, 948918979, 562182026,
    1050440434, 406471944, 559111754, -100455393, 839229628, -413480885,
    314844045, 834528407, -1064696601, -13610297, -672360499, -991740252,
    -202261465, -453306347, -821797483, 971173319, 89405266, 508995768,
    1006867142, -406560988, -926140795, 899447368, -452269520, 521164585,
    225856549, 479120236, 951923399, -629444410, -670299624, 315710516,
    326913750, -162167819, -75244103, 893042083, -254065377, -325390167,
    80016035, -151625244, -171657813, -777857221, -355239363, -36557796,
    -351244159, 4306665, 468595421, -6652064, 154767783, 505194285,
    -308816680, 1001031510, -875709471, -336740193, 830026890, -1038647570,
    -173950722, 156879032, 883753057, -350742286, 385494159, -530904682,
    878021460, -599770142, -163628149, -645526002, 499966977, -143051046,
    729761208, -1021883743, 431004280, -142353972, -558622651, 91014998,
    951582730, -528066207, -592887340, 248317868, 907898048, 240575056,
    869002309, 804839288, -816845371, -166192302, 215018081, 722718649,
    -810204723, -768395708, -127138385, 72309648, 648593218, -1054411686,
    548596861, 443253786, 37832399, 750728830, 907588736, 144964559,
    274969508, -218795070, -194850041, 337464206, 903851705, -763141024,
    -874958199, 173178473, -222141861, -834535867, 748294037, -280795915,
    -735676105, 72520911, -707594430, 411746867, 863739844, 1029266181,
    730276767, 432167898, 91019801, -807215459, -1072553992, 489985854,
    -1013961365, 280947147, -47229739, -668797459, -871973587, -185606795,
    701250570, 124028105, 767685501, 566492308, -475114999, -842696663,
    645320786, -838178059, -965637075, -818449550, -430821412, 994833177,
    379070214, -937825374, -777615839, -409036891, -987983303, 346524002,
    652224438, 375548322, 1020461522, -692176346, -1066687403, 399820068,
    -506310913, -423394391, -870936612, 632870252, 711152552, -323350782,
    -418999439, 492216734, 871002989, -682577581, 428162150, -440454181,
    108816532, 900575658, 821845974, -562891145, 361548115, -392406075,
    -278287463, -222277859, -5704135, 298396195, -144960382, -855637496,
    -331619186, 212279506, -229044792, -1066848801, -1001272228, 816867225,
    238744745, 1028789783, 142184035, 250484331, -7144319, 404685994,
    601035234, 87679029, -804088985, -178483918, -587827531, -735138967,
    415206260, -227683315, -1036765848, -86965865, 12850649, 60470733,
    522927853, -897638101, 952794586, 472916039, -513820856, -286767986,
    -503440359, 494423956, -93814931, 691115186, -354138878, -665711726,
    -1052842208, 662272007, -208874950, -543258233, 424536496, 973109048,
    61740007, -812986380, 534670772, -991572137, 103025920, -22550131,
    -470231738, -342736375, 557591127, 910717687, 119828717, 717495476,
    352202138, 32139071, 181966701, -799502303, 252929270, -793810598,
    -986665071, 629485005, -382154906, -44811793, -154763830, 23529063,
    938665521, -957399609, 831783293, 133468241, -630678812, 1659795,
    -593567753, 424276694, 906276279, -967747991, 546897790, 247489314,
    -1073364905, -95898502, -812279519, 811311458, 712777190, -311689836,
    439964450, -618000077, -247853285, 537703188, -134635855, 56962429,
    -776881039, 482535559, -376363923, 633841246, -646989254, 291463630,
    -889125072, -992347850, 621205469, 383956264, -564203684, -33937003,
    -339057893, 847019487, 304549768, -815508864, 125103457, 477953613,
    626516118, 1068477053, 473189316, 599944782, 307800450, -587486758,
    116984891, -293881126, 451994386, -282574120, -844077556, 343423099,
    37197632, 56943248, 806637293, -660017901, 1047841043, -671648967,
    373674889, 798585842, -799308877, 598372175, 646472173, -877294821,
    -300774657, 538520711, 311506047, 581552364, -1042331138, 561586750,
    134155457, 1038945916, -51571170, 405329267, -1022457734, -322369894,
    -385770354, 385357684, -989947986, -904293309, 710451492, 693561035,
    212671234, -610554, -876500106, 545491827, 543822408, 749197810,
    702238641, 810343796, -23190583, -505392533, -327810224, -505405055,
    639814482, 80908896, 331071866, 196047235, 252664940, -331345608,
    -766249843, -695839670, -250538254, -48903418, -722051615, 943993029,
    632096738, 874682404, -442575921, 720105278, 478680713, -755495931,
    -869618086, 112790651, -22852792, 370490213, -645615217, 1013627704,
    -378535762, -939702037, -716346231, -76677498, 67281710, -986818356,
    -941197303, 693915940, -506023947, 38417411, 869107803, 393787689,
    815647497, 252876865, 5984804, 675960951, -456695729, -579625837,
    -276636463, -835337550, -474908833, -483000163, 912953978, -965246858,
    -1024618173, 172817743, -304309066, 1060430970, -589627236, -713649841,
    -318936776, 350482264, 167450866, -944571042, 42377256, 503366787,
    411911438, -858651817, 277865259, -405246640, 614612204, -1000882537,
    -826583232, -667899701, -436869964, 497332053, -866470580, -1002664045,
    10472466, -1014093253, 14339853, 716771012, 608020784, 489250941,
    560156510, 964242608, -962257603, 358859723, 109526187, 187556091,
    99096581, 971573761, 418284742, 485116745, 152276873, 578660954,
    -488631736, 228916482, -1045176549, -935057748, -538351903, -193579894,
    499205677, 672775513, -282585615, -529302822, 580271826, -405009166,
    -404708331, -1047722595, 838195206, -373229752, -200954120, -1005143651,
    -881537256, -699919804, 296614246, 925070583, 1051518090, -756105750,
    997507243, 710187677, 937925053, 845849227, -831573757, 608958606,
    -226571076, -914097328, 369832675, -613898793, -191825422, 150841245,
    227866852, -885841877, -202176565, 327982285, 690156244, 968734253,
    161595317, 971687468, 108944800, -270654573, 593814437, 736262640,
    517808321, -914840469, -723263661, -961416627, 583675770, -780234423,
    942918913, -402099265, 456425720, 634852015, -776584191, -307417487,
    -47086083, -367429788, 484667533, -328267072, 841184532, 870057820,
    -304579394, 287754027, -24054840, -108641373, -210509587, 824292393,
    -831476608, 646213083, 605622498, -183251431, -863762067, 588434843 >>

\* The table for size N: the powers w^(4096/N * (k+1)), k = 0 .. N/4 - 2.
Roots(N) ==
    [k \in 0 .. N \div 4 - 2 |->
        [re |-> Circle[2 * (k + 1) * (4096 \div N) - 1],
         im |-> Circle[2 * (k + 1) * (4096 \div N)]]]

D8 == Roots(8)

D16 == Roots(16)

D32 == Roots(32)

D64 == Roots(64)

D128 == Roots(128)

D256 == Roots(256)

D512 == Roots(512)

D1024 == Roots(1024)

D2048 == Roots(2048)

D4096 == Roots(4096)

(***************************************************************************)
(* Buffers are functions from 0 .. len-1 to Complex = [re, im].            *)
(***************************************************************************)
Range(lo, n) == [k \in 1 .. n |-> lo + k - 1]

\* The quadruple a[i], a1[i], a2[i], a3[i] of four chunks of size q.
Quad(lo, q, i) == << lo + i, lo + q + i, lo + 2 * q + i, lo + 3 * q + i >>

Gather(buf, idx) == [k \in 1 .. Len(idx) |-> buf[idx[k]]]

RECURSIVE ScatterFrom(_, _, _, _)
ScatterFrom(buf, idx, q, k) ==
    IF k > Len(idx) THEN buf
    ELSE ScatterFrom([buf EXCEPT ![idx[k]] = q[k]], idx, q, k + 1)

Scatter(buf, idx, q) == ScatterFrom(buf, idx, q, 1)

\* normalise_all starting four positions early.
normalise_all_early(buf, lo, hi) ==
    [i \in DOMAIN buf |-> IF lo - 4 <= i /\ i < hi THEN normalise(buf[i]) ELSE buf[i]]

\* normalise_all reducing nothing.
normalise_all_none(buf, lo, hi) == buf

normalise_all(buf, lo, hi) ==
    [i \in DOMAIN buf |-> IF lo <= i /\ i < hi THEN normalise(buf[i]) ELSE buf[i]]

\* One butterfly call on four complex values; tw is the twiddle of transform.
Butterfly(kind, q, tw) ==
    CASE kind = "transformzero" -> transformzero(q)
      [] kind = "transformhalf" -> transformhalf(q)
      [] kind = "transform" -> transform(q, Big(tw.re), Big(tw.im))

NoTwiddle == [re |-> 0, im |-> 0]

(***************************************************************************)
(* The straight-line kernels as functions of the buffer: c4 on             *)
(* a[lo .. lo+4), the unrolled stage of c8 on a[lo .. lo+8).               *)
(***************************************************************************)
c2_run(buf, lo) == Run(c2_body, Gather(buf, Range(lo, 2)), Big(0), Big(0))

\* c4 with "a[2].im = t2 - t3" for "a[2].im = t2 + t3" (statement 15).
c4_run_sign(buf, lo) ==
    Run([c4_body EXCEPT ![15] = Sub(Im(2), T(2), T(3))],
        Gather(buf, Range(lo, 4)), Big(0), Big(0))

c4_run(buf, lo) == Run(c4_body, Gather(buf, Range(lo, 4)), Big(0), Big(0))

\* The statement names an element a[k], k >= n.
Touches(ins, n) == \E j \in 2 .. 4 : ins[j] >= Re(n)

\* The first statement of the body that indexes past a slice of n elements.
FirstFault(prog, n) ==
    CHOOSE k \in 1 .. Len(prog) :
        Touches(prog[k], n) /\ \A j \in 1 .. k - 1 : ~Touches(prog[j], n)

\* c8 on a slice of n < 8 elements: the statements before the first one that
\* indexes out of range.
c8_run_to_panic(buf, lo, n) ==
    Result(RunFrom(SubSeq(c8_body, 1, FirstFault(c8_body, n) - 1),
                   Load(Gather(buf, Range(lo, n)), Big(0), Big(0))), n)

\* c8 with "a[5].re = t8 - t6" for "a[5].re = a[4].re - t6" (statement 46),
\* t8 holding SQRTHALF.
c8_run_t8(buf, lo) ==
    Run([c8_body EXCEPT ![46] = Sub(Re(5), T(8), T(6))],
        Gather(buf, Range(lo, 8)), Big(0), Big(0))

\* c8 with "a[5].re = a[4].re + t6" for "a[5].re = a[4].re - t6" (statement 46).
c8_run_sign(buf, lo) ==
    Run([c8_body EXCEPT ![46] = Add(Re(5), Re(4), T(6))],
        Gather(buf, Range(lo, 8)), Big(0), Big(0))

c8_run(buf, lo) == Run(c8_body, Gather(buf, Range(lo, 8)), Big(0), Big(0))

\* A call of a kernel on the sub-slice a[off .. off+n) of the caller's slice.
Call(fn, n, off) == [fn |-> fn, n |-> n, off |-> off, tbl |-> ""]

\* A call of a kernel on the rest a[off..] of the caller's slice.
CallRest(fn, off) == [fn |-> fn, n |-> -1, off |-> off, tbl |-> ""]

\* A call of cpass on the whole slice with the table named tbl.
CallPass(n, tbl) == [fn |-> "cpass", n |-> n, off |-> 0, tbl |-> tbl]

\* c16 passing (D16[0].re, D16[0].im) to the last butterfly as well.
c16_butterflies_same(lo) == <<
    << "transformzero", Quad(lo, 4, 0), NoTwiddle >>,
    << "transform", Quad(lo, 4, 1), [re |-> D16[0].re, im |-> D16[0].im] >>,
    << "transformhalf", Quad(lo, 4, 2), NoTwiddle >>,
    << "transform", Quad(lo, 4, 3), [re |-> D16[0].re, im |-> D16[0].im] >> >>

\* The four butterflies of c16, lines 460-503: <<kind, quadruple, twiddle>>.
c16_butterflies(lo) == <<
    << "transformzero", Quad(lo, 4, 0), NoTwiddle >>,
    << "transform", Quad(lo, 4, 1), [re |-> D16[0].re, im |-> D16[0].im] >>,
    << "transformhalf", Quad(lo, 4, 2), NoTwiddle >>,
    << "transform", Quad(lo, 4, 3), [re |-> D16[0].im, im |-> D16[0].re] >> >>

\* c16 calling c8 on the upper half and c4 on a[0..4] and a[4..8].
c16_calls_upper == << Call("c4", 4, 0), Call("c4", 4, 4), Call("c8", 8, 8) >>

\* The sub-kernel calls of c16, lines 505-508.
c16_calls == << Call("c4", 4, 8), CallRest("c4", 12), Call("c8", 8, 0) >>

\* cpass walking the table from its far end: w[2n-1-i] for w[i-1].
cpass_butterfly_reversed(lo, len, tbl, i) ==
    LET n == len \div 8
    IN  IF i = 0
        THEN << "transformzero", Quad(lo, 2 * n, 0), NoTwiddle >>
        ELSE << "transform", Quad(lo, 2 * n, i),
                [re |-> tbl[2 * n - 1 - i].re, im |-> tbl[2 * n - 1 - i].im] >>

\* The butterfly cpass applies at index i of a slice of length len with the
\* table tbl: lines 529-545.
cpass_butterfly(lo, len, tbl, i) ==
    LET n == len \div 8
    IN  IF i = 0
        THEN << "transformzero", Quad(lo, 2 * n, 0), NoTwiddle >>
        ELSE << "transform", Quad(lo, 2 * n, i),
                [re |-> tbl[i - 1].re, im |-> tbl[i - 1].im] >>

\* c32 .. c4096, lines 548-620: the table passed to cpass and the calls that
\* follow it, in the order of the source.
c32_body == [tbl |-> "D32",
             calls |-> << Call("c8", 8, 16), Call("c8", 8, 24), Call("c16", 16, 0) >>]

\* c64 calling itself on a[..64] for c32 on a[..32].
c64_body_recursive ==
    [tbl |-> "D64",
     calls |-> << Call("c16", 16, 32), Call("c16", 16, 48), Call("c64", 64, 0) >>]

\* c64 calling c16 on a[..16] for c32 on a[..32].
c64_body_sixteen ==
    [tbl |-> "D64",
     calls |-> << Call("c16", 16, 32), Call("c16", 16, 48), Call("c16", 16, 0) >>]

\* c64 calling c16 on a[32..48] twice and never on a[48..64].
c64_body_same_quarter ==
    [tbl |-> "D64",
     calls |-> << Call("c16", 16, 32), Call("c16", 16, 32), Call("c32", 32, 0) >>]

c64_body == [tbl |-> "D64",
             calls |-> << Call("c16", 16, 32), Call("c16", 16, 48), Call("c32", 32, 0) >>]

c128_body == [tbl |-> "D128",
              calls |-> << Call("c32", 32, 64), Call("c32", 32, 96), Call("c64", 64, 0) >>]

\* c256 calling c128 on a[..64] for a[..128].
c256_body_short ==
    [tbl |-> "D256",
     calls |-> << Call("c64", 64, 128), Call("c64", 64, 192), Call("c128", 64, 0) >>]

c256_body == [tbl |-> "D256",
              calls |-> << Call("c64", 64, 128), Call("c64", 64, 192),
                           Call("c128", 128, 0) >>]

c512_body == [tbl |-> "D512",
              calls |-> << Call("c128", 128, 384), Call("c128", 128, 256),
                           Call("c256", 256, 0) >>]

c1024_body == [tbl |-> "D1024",
               calls |-> << Call("c256", 256, 768), Call("c256", 256, 512),
                            Call("c512", 512, 0) >>]

c2048_body == [tbl |-> "D2048",
               calls |-> << Call("c512", 512, 1536), Call("c512", 512, 1024),
                            Call("c1024", 1024, 0) >>]

c4096_body == [tbl |-> "D4096",
               calls |-> << Call("c1024", 1024, 3072), Call("c1024", 1024, 2048),
                            Call("c2048", 2048, 0) >>]

Ladder == {"c32", "c64", "c128", "c256", "c512", "c1024", "c2048", "c4096"}

Wrapper(fn) ==
    CASE fn = "c32" -> c32_body [] fn = "c64" -> c64_body
      [] fn = "c128" -> c128_body [] fn = "c256" -> c256_body
      [] fn = "c512" -> c512_body [] fn = "c1024" -> c1024_body
      [] fn = "c2048" -> c2048_body [] fn = "c4096" -> c4096_body

\* The static a table name refers to.
TableOf(name) ==
    CASE name = "D8" -> D8 [] name = "D16" -> D16 [] name = "D32" -> D32
      [] name = "D64" -> D64 [] name = "D128" -> D128 [] name = "D256" -> D256
      [] name = "D512" -> D512 [] name = "D1024" -> D1024
      [] name = "D2048" -> D2048 [] name = "D4096" -> D4096

(***************************************************************************)
(* Reference compositions, run by the harness on the caller's input after  *)
(* the function under test has returned.  A step is a butterfly or a call. *)
(***************************************************************************)
\* The twiddle with which the general butterfly stands for a specialization.
GeneralTwiddle(e, tw) ==
    CASE e = "transformzero" -> [re |-> 1, im |-> 0]
      [] e = "transformhalf" -> [re |-> SQRTHALF, im |-> SQRTHALF]
      [] e = "transform" -> tw

\* One butterfly stage of an 8-point block: zero-point and half-point.
stage8 == <<
    << "transformzero", Quad(0, 2, 0), NoTwiddle >>,
    << "transformhalf", Quad(0, 2, 1), NoTwiddle >> >>

\* The stage followed by c4 on a[0..4] and on a[4..8].
halves == [butterflies |-> stage8,
           calls |-> << Call("c4", 4, 0), Call("c4", 4, 4) >>]

\* The stage followed by c4 on a[0..4] and c2 on a[4..6] and on a[6..8].
split == [butterflies |-> stage8,
          calls |-> << Call("c4", 4, 0), Call("c2", 2, 4), Call("c2", 2, 6) >>]

\* One pass in the shape of cpass over 8 elements (n = 1), then the N/2
\* kernel on the first half and the N/4 kernels on the two quarters.
generic8 == [butterflies |-> << cpass_butterfly(0, 8, D8, 0), cpass_butterfly(0, 8, D8, 1) >>,
             calls |-> << Call("c4", 4, 0), Call("c2", 2, 4), Call("c2", 2, 6) >>]

\* cpass over 16 elements with D16, then c8, c4, c4.
generic16 == [butterflies |-> << >>,
              calls |-> << CallPass(16, "D16"), Call("c8", 8, 0), Call("c4", 4, 8),
                           Call("c4", 4, 12) >>]

References == {"halves", "split", "generic8", "generic16"}

Script(fn) ==
    CASE fn = "halves" -> halves [] fn = "split" -> split
      [] fn = "generic8" -> generic8 [] fn = "generic16" -> generic16

\* The reference runs the harness makes for a function under test.
ReferencesOf(e) ==
    CASE e = "c8" -> {"halves", "split", "generic8"}
      [] e = "c16" -> {"generic16"}
      [] OTHER -> {}

(***************************************************************************)
(* Inputs.  Components are drawn from sample values of [0, P] that include *)
(* both ends of the range; twiddles from balanced values that include both *)
(* ends of [-(P-1)/2, (P-1)/2].                                            *)
(***************************************************************************)
NumSamples == 5

NumTwiddles == 4

Cx(re, im) == [re |-> Big(re), im |-> Big(im)]

SampleList == <<
    Cx(0, 0), Cx(P, P), Cx(P, 0), Cx(0, P), Cx(1234567, HalfP), Cx(1, P - 1),
    Cx(P - 1, 2), Cx(65536, 32767) >>

Samples == { SampleList[k] : k \in 1 .. NumSamples }

TwiddleList == <<
    [re |-> HalfP, im |-> -HalfP], [re |-> -HalfP, im |-> -HalfP],
    [re |-> 1, im |-> 0], [re |-> SQRTHALF, im |-> SQRTHALF],
    [re |-> D16[0].re, im |-> D16[0].im], [re |-> D32[0].re, im |-> D32[0].im],
    [re |-> -HalfP, im |-> HalfP], [re |-> 0, im |-> 1] >>

Twiddles == { TwiddleList[k] : k \in 1 .. NumTwiddles }

\* Buffers of length N: constant but for one position, or a periodic mix.
Spike(N, b, v, p) == [j \in 0 .. N - 1 |-> IF j = p THEN v ELSE b]

Mix(N, m, sh) == [j \in 0 .. N - 1 |-> SampleList[((j * m + sh) % NumSamples) + 1]]

Mixes(N) == { Mix(N, m, sh) : m \in {1, 3}, sh \in 0 .. NumSamples - 1 }

Vectors(N) ==
    { Spike(N, b, v, p) : b \in Samples, v \in Samples, p \in 0 .. N - 1 }
        \cup Mixes(N)

\* The fixed vector [(1,0), (2,0), (3,0), (4,0)].
Ramp4 == [j \in 0 .. 3 |-> Cx(j + 1, 0)]

Quads == [0 .. 3 -> Samples]

(***************************************************************************)
(* The call stack.  A frame is a function being executed on the slice      *)
(* a[lo .. lo+n) and the statement it is at; w names the table a cpass     *)
(* frame was passed.  The log keeps the calls and butterflies of the       *)
(* frames at depth LogDepth or less.                                       *)
(***************************************************************************)
Butterflies == {"transform", "transformhalf", "transformzero"}

Size(fn) ==
    CASE fn = "c2" -> 2 [] fn = "c4" -> 4 [] fn = "c8" -> 8 [] fn = "c16" -> 16
      [] fn = "c32" -> 32 [] fn = "c64" -> 64 [] fn = "c128" -> 128
      [] fn = "c256" -> 256 [] fn = "c512" -> 512 [] fn = "c1024" -> 1024
      [] fn = "c2048" -> 2048 [] fn = "c4096" -> 4096

Frame(fn, n, lo, tbl) == [fn |-> fn, n |-> n, lo |-> lo, pc |-> 1, w |-> tbl]

Event(op, n, lo, idx, tw, ti, tbl) ==
    [op |-> op, n |-> n, lo |-> lo, idx |-> idx, tw |-> tw, ti |-> ti, tbl |-> tbl,
     depth |-> Len(stack)]

top == stack[1]

LogDepth == 2

Logged(ev) == IF ev.depth <= LogDepth THEN Append(log, ev) ELSE log

Running == stack # << >>

Done == stack = << >>

Advance == [stack EXCEPT ![1].pc = @ + 1]

\* The frame of a call made by the frame on top, and its record in the log.
SliceLen(c) == IF c.n < 0 THEN top.n - c.off ELSE c.n

Callee(c) ==
    Frame(c.fn, SliceLen(c), top.lo + c.off, c.tbl)

CallEvent(c) == Event(c.fn, SliceLen(c), top.lo + c.off, << >>, NoTwiddle, -1, c.tbl)

\* No linear combination: the input is the caller's own.
NoLin == [s |-> 1, t |-> 0, u |-> << >>, v |-> << >>]

NoRef == [general |-> << >>, ku |-> << >>]

StartBuild(b, e, n, v, tw, z, l, tbl) ==
    /\ entry = e
    /\ x = v
    /\ w = tw
    /\ zero_rep = z
    /\ a = v
    /\ stack = << [fn |-> e, n |-> n, lo |-> 0, pc |-> 1, w |-> tbl] >>
    /\ log = << [op |-> e, n |-> n, lo |-> 0, idx |-> << >>, tw |-> NoTwiddle,
                 ti |-> -1, tbl |-> "", depth |-> 0] >>
    /\ pre = << >>
    /\ ovf = FALSE
    /\ lin = l
    /\ run = "main"
    /\ out = << >>
    /\ ref = NoRef
    /\ build = b
    /\ panic = "none"
    /\ sealed = {}

Start(e, n, v, tw, z, l, tbl) == StartBuild("debug", e, n, v, tw, z, l, tbl)

\* A caller invokes one of the three butterflies on four reduced values.
InitButterfly ==
    \E e \in Butterflies, v \in Quads, z \in {0, P} :
        \E tw \in (IF e = "transform" THEN Twiddles ELSE {NoTwiddle}) :
            Start(e, 4, v, tw, z, NoLin, "")

\* A caller invokes c4, c8 or c16 on a reduced buffer of that length.
InitSmall ==
    \E e \in {"c4", "c8", "c16"}, z \in {0, P} :
        \E v \in (IF e = "c4" THEN Quads \cup {Ramp4} ELSE Vectors(Size(e))) :
            Start(e, Size(e), v, NoTwiddle, z, NoLin, "")

\* A caller invokes cpass on 16 elements with D16 (n = 2), or one of
\* c32 .. c4096, on a reduced buffer of that length.
InitLadder ==
    \/ \E v \in Mixes(16) :
            Start("cpass", 16, v, NoTwiddle, 0, NoLin, "D16")
    \/ \E e \in Ladder :
            \E v \in {Mix(Size(e), 1, 0)} :
                Start(e, Size(e), v, NoTwiddle, 0, NoLin, "")

\* s * r mod P for residues s, r.
MulModP(s, r) == ModP(BMulNat(Big(s), Big(r)))

\* The residue of s*p + t*q.
Combine(s, p, t, q) == AddModP(MulModP(s, ModP(p)), MulModP(t, ModP(q)))

\* The essentially-reduced representative of s*u + t*v, z standing for the
\* multiples of P.
Combination(s, u, t, v, z) ==
    [j \in DOMAIN u |->
        [re |-> Big(IF Combine(s, u[j].re, t, v[j].re) = 0 THEN z
                    ELSE Combine(s, u[j].re, t, v[j].re)),
         im |-> Big(IF Combine(s, u[j].im, t, v[j].im) = 0 THEN z
                    ELSE Combine(s, u[j].im, t, v[j].im))]]

NumScalars == 3

ScalarList == << 2, P - 1, 1234567, 0, 1, HalfP >>

Scalars == { ScalarList[k] : k \in 1 .. NumScalars }

StartLinear(e, s, u, t, v, z) ==
    Start(e, Size(e), Combination(s, u, t, v, z), NoTwiddle, z,
          [s |-> s, t |-> t, u |-> u, v |-> v], "")

\* A caller invokes a kernel on the representative of s*u + t*v.
InitLinear ==
    \/ \E e \in {"c4", "c8", "c16"}, s \in Scalars, t \in Scalars, z \in {0, P} :
            \E u \in Mixes(Size(e)) :
                StartLinear(e, s, u, t, Mix(Size(e), 3, 2), z)
    \/ \E e \in {"c32", "c64", "c128", "c256", "c512", "c1024"} :
            StartLinear(e, ScalarList[3], Mix(Size(e), 1, 0),
                        ScalarList[2], Mix(Size(e), 3, 1), 0)

(***************************************************************************)
(* Panics.  With debug assertions enabled a function checks its            *)
(* debug_assert!s first; in every build an index or a slice bound past the *)
(* end of the slice panics.  A panic unwinds the whole stack.              *)
(***************************************************************************)
Kernels == {"c4", "c8", "c16"} \cup Ladder

CReduced(u) == Reduced(u.re) /\ Reduced(u.im)

\* The kernels asserting only that the buffer is long enough:
\* debug_assert!(a.len() >= N).
AssertFails_shorter(f) ==
    /\ f.pc = 1
    /\ \/ f.fn \in Kernels /\ f.n < Size(f.fn)
       \/ /\ f.fn = "cpass"
          /\ \/ f.n % 8 # 0
             \/ f.n \div 8 < 2
             \/ Cardinality(DOMAIN TableOf(f.w)) # 2 * (f.n \div 8) - 1

\* debug_assert_eq!(a.len(), N) of a kernel; the three assertions of cpass,
\* lines 517-522.
AssertFails(f) ==
    /\ f.pc = 1
    /\ \/ f.fn \in Kernels /\ f.n # Size(f.fn)
       \/ /\ f.fn = "cpass"
          /\ \/ f.n % 8 # 0
             \/ f.n \div 8 < 2
             \/ Cardinality(DOMAIN TableOf(f.w)) # 2 * (f.n \div 8) - 1

\* The slice a[off .. off+n] or a[off ..] of a call does not fit in n elements.
SliceFails(c, n) == IF c.n < 0 THEN c.off > n ELSE c.off + c.n > n

\* The statement the frame is at indexes past the end of its slice (or of
\* the table, in cpass).
IndexFails(f) ==
    CASE f.fn = "c4" -> f.pc = 1 /\ f.n < 4
      [] f.fn = "c8" -> f.pc = 1 /\ f.n < 8
      [] f.fn = "c16" ->
            \/ f.pc \in 1 .. 4 /\ c16_butterflies(0)[f.pc][2][4] >= f.n
            \/ f.pc \in 5 .. 7 /\ SliceFails(c16_calls[f.pc - 4], f.n)
      [] f.fn \in Ladder ->
            f.pc \in 2 .. 4 /\ SliceFails(Wrapper(f.fn).calls[f.pc - 1], f.n)
      [] f.fn = "cpass" ->
            \/ f.pc = 1 /\ f.n \div 8 = 0
            \/ f.pc \in 2 .. 2 * (f.n \div 8) /\ f.pc - 2 \notin DOMAIN TableOf(f.w)
      [] OTHER -> FALSE

\* The frame is about to call a butterfly.
CallsButterfly(f) ==
    \/ f.fn = "cpass" /\ f.pc \in 1 .. 2 * (f.n \div 8)
    \/ f.fn = "c16" /\ f.pc \in 1 .. 4
    \/ f.fn \in Butterflies /\ f.pc = 1

\* That butterfly: <<kind, quadruple, twiddle>>.
PendingButterfly(f) ==
    CASE f.fn = "cpass" -> cpass_butterfly(f.lo, f.n, TableOf(f.w), f.pc - 1)
      [] f.fn = "c16" -> c16_butterflies(f.lo)[f.pc]
      [] f.fn \in Butterflies -> << f.fn, Quad(0, 1, 0), w >>

ArgumentsReduced(b) == \A k \in 1 .. 4 : CReduced(a[b[2][k]])

\* The sixteen range assertions of transform, lines 54-72.
RangeFails(f) ==
    /\ CallsButterfly(f)
    /\ PendingButterfly(f)[1] = "transform"
    /\ ~ArgumentsReduced(PendingButterfly(f))

\* The assertions written assert!, checked in every build.
Fault_assert(f) ==
    IF AssertFails(f) THEN "assertion"
    ELSE IF IndexFails(f) THEN "index"
    ELSE IF RangeFails(f) THEN "assertion"
    ELSE "none"

\* The panic the statement the frame is at ends in, if any.
Fault(f) ==
    IF build = "debug" /\ AssertFails(f) THEN "assertion"
    ELSE IF IndexFails(f) THEN "index"
    ELSE IF build = "debug" /\ RangeFails(f) THEN "assertion"
    ELSE "none"

Sound == Fault(top) = "none"

\* The lengths of the buffers a caller passes to a kernel of size N: up to
\* MaxExcess elements too many, or any number too few.
MaxExcess == 9

SmallKernels == {"c4", "c8", "c16", "c32", "c64"}

Lengths(b, e) ==
    IF b = "release"
    THEN IF e \in SmallKernels THEN 0 .. Size(e) + MaxExcess ELSE {0, Size(e) - 1}
    ELSE {0, Size(e) - 1, Size(e) + 1, Size(e) + MaxExcess - 1}
            \cup (IF e \in SmallKernels THEN {Size(e)} ELSE {})

\* A caller invokes a kernel, in either build, on a reduced buffer of any
\* length.
InitMisuse ==
    \E b \in {"debug", "release"}, e \in Kernels :
        \E L \in Lengths(b, e) :
            StartBuild(b, e, L, Mix(L, 1, 0), NoTwiddle, 0, NoLin, "")

(***************************************************************************)
(* Steps.                                                                  *)
(***************************************************************************)
\* The effect of a straight-line body with result r on the positions idx.
Effect(idx, r) ==
    /\ a' = Scatter(a, idx, r.q)
    /\ pre' = r.pre
    /\ ovf' = (ovf \/ r.ovf)
    /\ stack' = Advance

\* The butterfly b = <<kind, quadruple, twiddle>>, applied in place.
Apply(b) == Effect(b[2], Butterfly(b[1], Gather(a, b[2]), b[3]))

\* The same, recorded in the log with the index ti of the table entry used.
ApplyLogged(b, ti) ==
    /\ Apply(b)
    /\ log' = Logged(Event(b[1], 4, top.lo, b[2], b[3], ti, ""))

\* A call c of the frame on top.
Invoke(c) ==
    /\ stack' = << Callee(c) >> \o Advance
    /\ log' = Logged(CallEvent(c))

\* A butterfly called directly: its whole body.
Step_butterfly ==
    /\ Running /\ top.fn \in Butterflies /\ top.pc = 1
    /\ Sound
    /\ Apply(<< top.fn, Quad(0, 1, 0), w >>)
    /\ UNCHANGED << build, panic, sealed, entry, x, w, zero_rep, log, lin, run, out, ref >>

\* c2: lines 254-265.
Step_c2 ==
    /\ Running /\ top.fn = "c2" /\ top.pc = 1
    /\ Effect(Range(top.lo, 2), c2_run(a, top.lo))
    /\ UNCHANGED << build, panic, sealed, entry, x, w, zero_rep, log, lin, run, out, ref >>

\* c4: lines 341-365.
Step_c4 ==
    /\ Running /\ top.fn = "c4" /\ top.pc = 1
    /\ Sound
    /\ Effect(Range(top.lo, 4), c4_run(a, top.lo))
    /\ sealed' = sealed \cup (top.lo .. top.lo + 3)
    /\ UNCHANGED << build, panic, entry, x, w, zero_rep, log, lin, run, out, ref >>

\* c8: the unrolled stage, lines 373-447.
Step_c8_stage ==
    /\ Running /\ top.fn = "c8" /\ top.pc = 1
    /\ Sound
    /\ Effect(Range(top.lo, 8), c8_run(a, top.lo))
    /\ UNCHANGED << build, panic, sealed, entry, x, w, zero_rep, log, lin, run, out, ref >>

\* c8: c4(&mut a[..4]), line 449.
Step_c8_call ==
    /\ Running /\ top.fn = "c8" /\ top.pc = 2
    /\ Sound
    /\ Invoke(Call("c4", 4, 0))
    /\ UNCHANGED << build, panic, sealed, entry, x, w, zero_rep, a, pre, ovf, lin, run, out, ref >>

\* c8: normalise_all(&mut a[4..]), line 453.
Step_c8_normalise_all ==
    /\ Running /\ top.fn = "c8" /\ top.pc = 3
    /\ Sound
    /\ a' = normalise_all(a, top.lo + 4, top.lo + top.n)
    /\ stack' = Advance
    /\ UNCHANGED << build, panic, sealed, entry, x, w, zero_rep, log, pre, ovf, lin, run, out, ref >>

\* c16: one of the four butterflies, lines 460-503.
Step_c16_butterfly ==
    /\ Running /\ top.fn = "c16" /\ top.pc \in 1 .. 4
    /\ Sound
    /\ ApplyLogged(c16_butterflies(top.lo)[top.pc], -1)
    /\ UNCHANGED << build, panic, sealed, entry, x, w, zero_rep, lin, run, out, ref >>

\* c16: one of the three sub-kernel calls, lines 505-508.
Step_c16_call ==
    /\ Running /\ top.fn = "c16" /\ top.pc \in 5 .. 7
    /\ Sound
    /\ Invoke(c16_calls[top.pc - 4])
    /\ UNCHANGED << build, panic, sealed, entry, x, w, zero_rep, a, pre, ovf, lin, run, out, ref >>

\* c32 .. c4096: cpass(a, &D_N), the first statement.
Step_cN_cpass ==
    /\ Running /\ top.fn \in Ladder /\ top.pc = 1
    /\ Sound
    /\ Invoke(CallPass(top.n, Wrapper(top.fn).tbl))
    /\ UNCHANGED << build, panic, sealed, entry, x, w, zero_rep, a, pre, ovf, lin, run, out, ref >>

\* c32 .. c4096: one of the three sub-kernel calls.
Step_cN_call ==
    /\ Running /\ top.fn \in Ladder /\ top.pc \in 2 .. 4
    /\ Sound
    /\ Invoke(Wrapper(top.fn).calls[top.pc - 1])
    /\ UNCHANGED << build, panic, sealed, entry, x, w, zero_rep, a, pre, ovf, lin, run, out, ref >>

\* cpass: the butterfly at index i = pc - 1, lines 529-545.
Step_cpass ==
    /\ Running /\ top.fn = "cpass" /\ top.pc \in 1 .. 2 * (top.n \div 8)
    /\ Sound
    /\ ApplyLogged(cpass_butterfly(top.lo, top.n, TableOf(top.w), top.pc - 1), top.pc - 2)
    /\ UNCHANGED << build, panic, sealed, entry, x, w, zero_rep, lin, run, out, ref >>

\* A reference composition: a butterfly.
Step_reference_butterfly ==
    /\ Running /\ top.fn \in References
    /\ top.pc \in 1 .. Len(Script(top.fn).butterflies)
    /\ ApplyLogged(Script(top.fn).butterflies[top.pc], -1)
    /\ UNCHANGED << build, panic, sealed, entry, x, w, zero_rep, lin, run, out, ref >>

\* A reference composition: a call.
Step_reference_call ==
    /\ Running /\ top.fn \in References
    /\ top.pc - Len(Script(top.fn).butterflies) \in 1 .. Len(Script(top.fn).calls)
    /\ Invoke(Script(top.fn).calls[top.pc - Len(Script(top.fn).butterflies)])
    /\ UNCHANGED << build, panic, sealed, entry, x, w, zero_rep, a, pre, ovf, lin, run, out, ref >>

\* A debug_assert! fails: the panic unwinds, nothing else has happened.
Step_assertion_fails ==
    /\ Running /\ Fault(top) = "assertion"
    /\ panic' = "assertion"
    /\ stack' = << >>
    /\ UNCHANGED << build, sealed, entry, x, w, zero_rep, a, log, pre, ovf, lin, run,
                    out, ref >>

\* An index or slice bound is out of range: the statements of c8 before the
\* one that panics have taken effect.
Step_index_out_of_bounds ==
    /\ Running /\ Fault(top) = "index"
    /\ panic' = "index"
    /\ stack' = << >>
    /\ a' = IF top.fn = "c8"
            THEN Scatter(a, Range(top.lo, top.n), c8_run_to_panic(a, top.lo, top.n).q)
            ELSE a
    /\ UNCHANGED << build, sealed, entry, x, w, zero_rep, log, pre, ovf, lin, run,
                    out, ref >>

\* The number of statements of the function a frame executes.
LastPc(f) ==
    CASE f.fn \in Butterflies -> 1
      [] f.fn \in {"c2", "c4"} -> 1
      [] f.fn = "c8" -> 3
      [] f.fn = "c16" -> 7
      [] f.fn \in Ladder -> 4
      [] f.fn = "cpass" -> 2 * (f.n \div 8)
      [] f.fn \in References -> Len(Script(f.fn).butterflies) + Len(Script(f.fn).calls)

\* The function returns to its caller.
Return ==
    /\ Running /\ top.pc > LastPc(top)
    /\ stack' = Tail(stack)
    /\ log' = Logged(Event("return", top.n, top.lo, << >>, NoTwiddle, -1, ""))
    /\ UNCHANGED << build, panic, sealed, entry, x, w, zero_rep, a, pre, ovf, lin, run, out, ref >>

\* The harness computes the general butterfly on the caller's input x.
Harness_butterfly ==
    /\ Done /\ run = "main" /\ entry \in Butterflies
    /\ run' = "general"
    /\ out' = a
    /\ ref' = [ref EXCEPT !.general =
                    Butterfly("transform", Gather(x, Quad(0, 1, 0)), GeneralTwiddle(entry, w)).q]
    /\ UNCHANGED << build, panic, sealed, entry, x, w, zero_rep, a, stack, log, pre, ovf, lin >>

\* The harness runs a reference composition on the caller's input x.
Harness_reference ==
    /\ Done /\ run = "main"
    /\ \E r \in ReferencesOf(entry) :
        /\ run' = r
        /\ stack' = << Frame(r, Size(entry), 0, "") >>
    /\ out' = a
    /\ a' = x
    /\ sealed' = {}
    /\ UNCHANGED << build, panic, entry, x, w, zero_rep, log, pre, ovf, lin, ref >>

\* The harness runs the function under test on u, then on v.
Harness_linear_u ==
    /\ Done /\ run = "main"
    /\ run' = "linear_u"
    /\ stack' = << Frame(entry, Size(entry), 0, "") >>
    /\ out' = a
    /\ a' = lin.u
    /\ sealed' = {}
    /\ UNCHANGED << build, panic, entry, x, w, zero_rep, log, pre, ovf, lin, ref >>

Harness_linear_v ==
    /\ Done /\ run = "linear_u"
    /\ run' = "linear_v"
    /\ stack' = << Frame(entry, Size(entry), 0, "") >>
    /\ ref' = [ref EXCEPT !.ku = a]
    /\ a' = lin.v
    /\ sealed' = {}
    /\ UNCHANGED << build, panic, entry, x, w, zero_rep, log, pre, ovf, lin, out >>

NextButterfly == Step_butterfly \/ Return \/ Harness_butterfly

SpecButterfly == InitButterfly /\ [][NextButterfly]_vars

NextSmall ==
    \/ Step_c2
    \/ Step_c4
    \/ Step_c8_stage
    \/ Step_c8_call
    \/ Step_c8_normalise_all
    \/ Step_c16_butterfly
    \/ Step_c16_call
    \/ Step_cpass
    \/ Step_reference_butterfly
    \/ Step_reference_call
    \/ Return
    \/ Harness_reference

SpecSmall == InitSmall /\ [][NextSmall]_vars

NextLadder ==
    \/ Step_c4
    \/ Step_c8_stage
    \/ Step_c8_call
    \/ Step_c8_normalise_all
    \/ Step_c16_butterfly
    \/ Step_c16_call
    \/ Step_cN_cpass
    \/ Step_cN_call
    \/ Step_cpass
    \/ Return

SpecLadder == InitLadder /\ [][NextLadder]_vars

NextLinear ==
    \/ Step_c4
    \/ Step_c8_stage
    \/ Step_c8_call
    \/ Step_c8_normalise_all
    \/ Step_c16_butterfly
    \/ Step_c16_call
    \/ Step_cN_cpass
    \/ Step_cN_call
    \/ Step_cpass
    \/ Return
    \/ Harness_linear_u
    \/ Harness_linear_v

SpecLinear == InitLinear /\ [][NextLinear]_vars

NextMisuse ==
    \/ Step_c4
    \/ Step_c8_stage
    \/ Step_c8_call
    \/ Step_c8_normalise_all
    \/ Step_c16_butterfly
    \/ Step_c16_call
    \/ Step_cN_cpass
    \/ Step_cN_call
    \/ Step_cpass
    \/ Return
    \/ Step_assertion_fails
    \/ Step_index_out_of_bounds

SpecMisuse == InitMisuse /\ [][NextMisuse]_vars

(***************************************************************************)
(* Properties.                                                             *)
(***************************************************************************)
\* Complex values as exact integers.
CAdd(u, v) == [re |-> BAdd(u.re, v.re), im |-> BAdd(u.im, v.im)]

CSub(u, v) == [re |-> BSub(u.re, v.re), im |-> BSub(u.im, v.im)]

\* i * u.
CTimesI(u) == [re |-> BNeg(u.im), im |-> u.re]

CCongruent(u, v) == Congruent(u.re, v.re) /\ Congruent(u.im, v.im)


\* |v| <= b.
Within(v, b) == BLeq(BAbs(v), b)

\* C1: c4 leaves in the buffer, as exact integers with no reduction,
\* b0 = a0+a1+a2+a3, b1 = a0-a1+a2-a3, b2 = a0+i*a1-a2-i*a3 and
\* b3 = a0-i*a1-a2+i*a3 of its reduced input (the 4-point DFT with w = i in
\* the order X0, X2, X1, X3); [(1,0),(2,0),(3,0),(4,0)] gives
\* [(10,0),(-2,0),(-2,-2),(-2,2)].
C1_c4_exact ==
    (entry = "c4" /\ Done) =>
        /\ a[0] = CAdd(CAdd(x[0], x[1]), CAdd(x[2], x[3]))
        /\ a[1] = CSub(CAdd(x[0], x[2]), CAdd(x[1], x[3]))
        /\ a[2] = CAdd(CSub(x[0], x[2]), CTimesI(CSub(x[1], x[3])))
        /\ a[3] = CSub(CSub(x[0], x[2]), CTimesI(CSub(x[1], x[3])))
        /\ (x = Ramp4 => a = [j \in 0 .. 3 |->
                                << Cx(10, 0), Cx(-2, 0), Cx(-2, -2), Cx(-2, 2) >>[j + 1]])

\* c4 has returned on the ramp, and on an input whose sums exceed P.
C1_witness ==
    /\ entry = "c4" /\ Done /\ x = Ramp4 /\ a[0] = Cx(10, 0)

\* C2: on reduced inputs transformzero gives, modulo P, the outputs of
\* transform with twiddle (1, 0), and transformhalf those of transform with
\* twiddle (SQRTHALF, SQRTHALF).
C2_specializations ==
    (entry \in {"transformzero", "transformhalf"} /\ run = "general") =>
        \A k \in 0 .. 3 : CCongruent(a[k], ref.general[k + 1])

\* transformhalf has been compared with the general butterfly on an input it
\* changes in a2 and a3.
C2_witness ==
    /\ entry = "transformhalf" /\ run = "general"
    /\ ModP(a[2].re) # 0 /\ ModP(a[3].im) # 0
    /\ a[2] = ref.general[3]

\* C3: in each butterfly, on return a0 and a1 have both components in [0, P]
\* and are congruent mod P to the old a0 + a2 and the old a1 + a3.
C3_sums_reduced ==
    (entry \in Butterflies /\ Done) =>
        /\ CReduced(a[0]) /\ CCongruent(a[0], CAdd(x[0], x[2]))
        /\ CReduced(a[1]) /\ CCongruent(a[1], CAdd(x[1], x[3]))

\* transform has returned on an input whose sum a0 + a2 exceeded P in one
\* component and was reduced.
C3_witness ==
    /\ entry = "transform" /\ Done
    /\ ~Reduced(BAdd(x[0].re, x[2].re))
    /\ a[0].re = BSub(BAdd(x[0].re, x[2].re), BP)

\* The documented bound of each butterfly on the values stored in a2 and a3
\* ahead of the wide reduction.
Bound(e) ==
    CASE e = "transform" -> BSub(BMul(Big(2), BMul(BP, BP)), BMul(Big(2), BP))
      [] e = "transformhalf" -> BMul(Big(131072), BP)
      [] e = "transformzero" -> BMul(Big(2), BP)

\* C4: for reduced inputs and a balanced twiddle, every value stored in a2
\* and a3 before the wide reduction is within the bound of its butterfly
\* (2P^2 - 2P, 2^17 * P, 2P), and no intermediate overflows 64 bits.
C4_bounds ==
    (entry \in Butterflies /\ Done) =>
        /\ Len(pre) = 2
        /\ \A k \in 1 .. 2 :
                Within(pre[k].re, Bound(entry)) /\ Within(pre[k].im, Bound(entry))
        /\ ~ovf

\* transform has returned having stored a value of magnitude exactly
\* 2P^2 - 2P.
C4_witness ==
    /\ entry = "transform" /\ Done /\ Len(pre) = 2
    /\ \E k \in 1 .. 2 :
            \/ BAbs(pre[k].re) = Bound("transform")
            \/ BAbs(pre[k].im) = Bound("transform")

\* The two buffers agree modulo P at the positions k of S.
AgreeModP(u, v, S) == \A k \in S : CCongruent(u[k], v[k])

\* C7 as stated: c8 gives, modulo P, the result of the butterfly stage
\* followed by c4 on a[0..4] and c4 on a[4..8].
C7_two_c4 ==
    (entry = "c8" /\ run = "halves" /\ Done) => AgreeModP(out, a, 0 .. 7)

\* C7, amended: c8 gives, modulo P, the result of the butterfly stage
\* (zero-point on (a[0],a[2],a[4],a[6]), half-point on (a[1],a[3],a[5],a[7]))
\* followed by c4 on a[0..4] and the 2-point butterfly on a[4..6] and on
\* a[6..8].
C7_c4_and_two_c2 ==
    (entry = "c8" /\ run = "split" /\ Done) => AgreeModP(out, a, 0 .. 7)

\* c8 and the stage-c4-c2-c2 composition have both run on an input whose
\* results are not all zero modulo P.
C7_witness ==
    /\ entry = "c8" /\ run = "split" /\ Done
    /\ ModP(out[5].re) # 0 /\ ModP(out[2].im) # 0

\* The calls and butterflies the function under test made itself, in order:
\* <<function, offset, length, positions, twiddle>>.
Shape(ev) == << ev.op, ev.lo, ev.n, ev.idx, ev.tw >>

Own(ev) == ev.depth = 1 /\ ev.op # "return"

OwnSteps == LET l == SelectSeq(log, Own) IN [k \in 1 .. Len(l) |-> Shape(l[k])]

\* The seven steps of c16, given the twiddle of the butterfly at j = 3.
C16Steps(tw3) == <<
    << "transformzero", 0, 4, << 0, 4, 8, 12 >>, NoTwiddle >>,
    << "transform", 0, 4, << 1, 5, 9, 13 >>, D16[0] >>,
    << "transformhalf", 0, 4, << 2, 6, 10, 14 >>, NoTwiddle >>,
    << "transform", 0, 4, << 3, 7, 11, 15 >>, tw3 >>,
    << "c4", 8, 4, << >>, NoTwiddle >>,
    << "c4", 12, 4, << >>, NoTwiddle >>,
    << "c8", 0, 8, << >>, NoTwiddle >> >>

\* C8 as stated: c16 applies the zero-point butterfly at j = 0, the general
\* butterfly with D16[0] at j = 1, the half-point butterfly at j = 2 and the
\* general butterfly with the complex conjugate of D16[0] at j = 3, then c4
\* on a[8..12], c4 on a[12..16] and c8 on a[0..8].
C8_conjugate ==
    (entry = "c16" /\ run = "main" /\ Done) =>
        OwnSteps = C16Steps([re |-> D16[0].re, im |-> -D16[0].im])

\* C8, amended: the twiddle at j = 3 is D16[0] with its two components
\* exchanged, (D16[0].im, D16[0].re).
C8_exchanged ==
    (entry = "c16" /\ run = "main" /\ Done) =>
        OwnSteps = C16Steps([re |-> D16[0].im, im |-> D16[0].re])

\* c16 has returned, having made seven steps of its own, on an input that
\* the butterfly at j = 3 changes.
C8_witness ==
    /\ entry = "c16" /\ run = "main" /\ Done
    /\ Len(SelectSeq(log, Own)) = 7
    /\ ModP(a[15].re) # 0

PassEvent(i) == log[Len(log) - 2 * (top.n \div 8) + 1 + i]

PassDone ==
    /\ Running /\ top.fn = "cpass" /\ Len(stack) <= LogDepth
    /\ top.pc = 2 * (top.n \div 8) + 1

\* C5: cpass on a buffer of length 8n with a table of 2n-1 entries applies,
\* in increasing order of i = 0 .. 2n-1, the zero-point butterfly (i = 0) or
\* the general butterfly with twiddle w[i-1] (i >= 1) to the quadruple
\* (a[i], a[2n+i], a[4n+i], a[6n+i]), and nothing else; the quadruples
\* partition the buffer and every table entry is used exactly once.
C5_cpass_sweep ==
    PassDone =>
        /\ top.n \div 8 >= 2
        /\ DOMAIN TableOf(top.w) = 0 .. 2 * (top.n \div 8) - 2
        /\ Len(log) >= 2 * (top.n \div 8) + 1
        /\ log[Len(log) - 2 * (top.n \div 8)].op = "cpass"
        /\ PassEvent(0).op = "transformzero"
        /\ \A i \in 0 .. 2 * (top.n \div 8) - 1 :
                /\ PassEvent(i).depth = Len(stack)
                /\ PassEvent(i).idx =
                        << top.lo + i, top.lo + 2 * (top.n \div 8) + i,
                           top.lo + 4 * (top.n \div 8) + i,
                           top.lo + 6 * (top.n \div 8) + i >>
        /\ \A i \in 1 .. 2 * (top.n \div 8) - 1 :
                /\ PassEvent(i).op = "transform"
                /\ PassEvent(i).tw = TableOf(top.w)[i - 1]
        /\ UNION {{PassEvent(i).idx[k] : k \in 1 .. 4} :
                        i \in 0 .. 2 * (top.n \div 8) - 1}
                = top.lo .. top.lo + top.n - 1

\* cpass has swept the whole table of c512, 127 entries, and changed the
\* buffer.
C5_witness ==
    /\ PassDone /\ top.w = "D512" /\ Len(stack) = 2
    /\ PassEvent(127).tw = D512[126]
    /\ a # x

\* The kernel of size n.
KernelOf(n) ==
    CASE n = 8 -> "c8" [] n = 16 -> "c16" [] n = 32 -> "c32" [] n = 64 -> "c64"
      [] n = 128 -> "c128" [] n = 256 -> "c256" [] n = 512 -> "c512"
      [] n = 1024 -> "c1024" [] n = 2048 -> "c2048"

TableNameOf(n) ==
    CASE n = 32 -> "D32" [] n = 64 -> "D64" [] n = 128 -> "D128"
      [] n = 256 -> "D256" [] n = 512 -> "D512" [] n = 1024 -> "D1024"
      [] n = 2048 -> "D2048" [] n = 4096 -> "D4096"

\* The calls the function under test made itself and the returns to it.
Outer(ev) == (ev.depth = 1 /\ ev.op # "return") \/ (ev.depth = 2 /\ ev.op = "return")

Step4(ev) == << ev.op, ev.lo, ev.n, ev.tbl >>

OuterSteps == LET l == SelectSeq(log, Outer) IN [k \in 1 .. Len(l) |-> Step4(l[k])]

\* C6: cN (N = 32 .. 4096) calls cpass on the whole buffer with the table
\* D<N>, and after cpass has returned it calls the N/2 kernel once on
\* a[0..N/2] and the N/4 kernel once on a[N/2..3N/4] and once on a[3N/4..N],
\* each call returning before the next, and calls nothing else.
C6_ladder_calls ==
    (entry \in Ladder /\ Done) =>
        LET N == Size(entry)
            s == OuterSteps
        IN  /\ Len(s) = 8
            /\ s[1] = << "cpass", 0, N, TableNameOf(N) >>
            /\ \A k \in {2, 4, 6, 8} : s[k][1] = "return"
            /\ s[2] = << "return", 0, N, "" >>
            /\ {s[3], s[5], s[7]} =
                    { << KernelOf(N \div 2), 0, N \div 2, "" >>,
                      << KernelOf(N \div 4), N \div 2, N \div 4, "" >>,
                      << KernelOf(N \div 4), 3 * (N \div 4), N \div 4, "" >> }
            /\ \A k \in {3, 5, 7} : s[k + 1] = << "return", s[k][2], s[k][3], "" >>

\* c512, whose quarter calls come in the other order, has returned.
C6_witness ==
    /\ entry = "c512" /\ Done
    /\ a # x
    /\ Len(SelectSeq(log, Outer)) = 8

\* The three runs of the function under test have returned: on s*u + t*v
\* (in out), on u (in ref.ku) and on v (in a).
LinearDone == run = "linear_v" /\ Done

\* C10: cN on the essentially-reduced representative of s*u + t*v gives, at
\* every position and component, a value congruent modulo P to
\* s*cN(u) + t*cN(v).
C10_linear ==
    LinearDone =>
        \A k \in DOMAIN out :
            /\ ModP(out[k].re) = Combine(lin.s, ref.ku[k].re, lin.t, a[k].re)
            /\ ModP(out[k].im) = Combine(lin.s, ref.ku[k].im, lin.t, a[k].im)

\* c16 has run on a combination with scalars other than 0 and 1 and on its
\* two vectors, none of the three results vanishing at position 5.
C10_witness ==
    /\ LinearDone /\ entry = "c16"
    /\ lin.s \notin {0, 1} /\ lin.t \notin {0, 1}
    /\ ModP(out[5].re) # 0 /\ ModP(ref.ku[5].re) # 0 /\ ModP(a[5].re) # 0
    /\ ModP(out[5].re) # ModP(ref.ku[5].re)

\* The length of the buffer the caller passed.
BufLen == Cardinality(DOMAIN x)

Misused == entry \in Kernels /\ BufLen # Size(entry)

\* C11: with debug assertions enabled, a kernel called with a buffer whose
\* length is not N fails its length assertion as its first step: it has made
\* no call and no butterfly, and the buffer is unchanged.
C11_length_assertion_first ==
    (build = "debug" /\ Misused) =>
        /\ a = x
        /\ Len(log) = 1
        /\ Running => (Len(stack) = 1 /\ top.fn = entry /\ top.pc = 1)
        /\ Done => panic = "assertion"

\* c4096 has panicked on a buffer of 4097 elements.
C11_witness ==
    /\ build = "debug" /\ entry = "c4096" /\ BufLen = 4097
    /\ Done /\ panic = "assertion"

\* C12 as stated: with debug assertions disabled, a kernel called with a
\* buffer whose length is not N never panics.
C12_never_panics ==
    (build = "release" /\ Misused) => panic = "none"

\* The buffer is too long, by less than 8 elements for c32 .. c4096.
Fits == BufLen > Size(entry) /\ (entry \in Ladder => BufLen < Size(entry) + 8)

\* C12, amended: with debug assertions disabled, a kernel called with a
\* buffer longer than N (for N >= 32: by at most 7 elements) returns without
\* a panic; with a buffer shorter than N, or for N >= 32 at least 8 elements
\* longer, it panics on an index or slice bound out of range, and no
\* assertion is involved.
C12_panics_out_of_range ==
    (build = "release" /\ Misused) =>
        /\ panic \in {"none", "index"}
        /\ Done => (panic = "none" <=> Fits)
        /\ Running => panic = "none"

\* c32 has panicked on a buffer of 31 elements, after cpass has modified it.
C12_witness ==
    /\ build = "release" /\ entry = "c32" /\ BufLen = 31
    /\ Done /\ panic = "index" /\ a # x

\* The number of kernels on the call stack.
KernelDepth == Cardinality({k \in 1 .. Len(stack) : stack[k].fn \in Kernels})

Log2(n) ==
    CASE n = 4 -> 2 [] n = 8 -> 3 [] n = 16 -> 4 [] n = 32 -> 5 [] n = 64 -> 6
      [] n = 128 -> 7 [] n = 256 -> 8 [] n = 512 -> 9 [] n = 1024 -> 10
      [] n = 2048 -> 11 [] n = 4096 -> 12

\* A variant: the number of steps a call of a function on n elements takes,
\* its return included.
Steps(fn, n) ==
    CASE fn = "c4" -> 2 [] fn = "c8" -> 6 [] fn = "c16" -> 18 [] fn = "c32" -> 44
      [] fn = "c64" -> 102 [] fn = "c128" -> 228 [] fn = "c256" -> 502
      [] fn = "c512" -> 1092 [] fn = "c1024" -> 2358 [] fn = "c2048" -> 5060
      [] fn = "c4096" -> 10806 [] fn = "cpass" -> 2 * (n \div 8) + 1

\* The calls a frame has still to make.
PendingCalls(f) ==
    CASE f.fn = "c8" -> IF f.pc <= 2 THEN << Call("c4", 4, 0) >> ELSE << >>
      [] f.fn = "c16" ->
            IF f.pc <= 4 THEN c16_calls ELSE SubSeq(c16_calls, f.pc - 4, 3)
      [] f.fn \in Ladder ->
            IF f.pc = 1
            THEN << CallPass(f.n, Wrapper(f.fn).tbl) >> \o Wrapper(f.fn).calls
            ELSE SubSeq(Wrapper(f.fn).calls, f.pc - 1, 3)
      [] OTHER -> << >>

RECURSIVE StepsOfCalls(_, _)
StepsOfCalls(cs, n) ==
    IF cs = << >> THEN 0
    ELSE Steps(cs[1].fn, IF cs[1].n < 0 THEN n - cs[1].off ELSE cs[1].n)
            + StepsOfCalls(Tail(cs), n)

\* The steps a frame has still to take, those of its callees included.
FrameRemaining(f) == LastPc(f) - f.pc + 2 + StepsOfCalls(PendingCalls(f), f.n)

RECURSIVE RemainingFrom(_)
RemainingFrom(k) ==
    IF k > Len(stack) THEN 0 ELSE FrameRemaining(stack[k]) + RemainingFrom(k + 1)

Remaining == RemainingFrom(1)

\* C13: every kernel invocation terminates (each step takes one off the
\* number of steps that remain, which is zero only when the call has
\* returned, and a call that has not returned can take a step), and the
\* number of nested kernel calls during a call of cN never exceeds log2(N)
\* (12 for c4096).
C13_terminates_depth_bounded ==
    /\ [](entry \in Kernels => KernelDepth <= Log2(Size(entry)))
    /\ [][Remaining' = Remaining - 1]_vars
    /\ [](Remaining >= 0 /\ (Remaining = 0 <=> Done))
    /\ [](Running => (Sound /\ panic = "none"))
    /\ []((entry \in Kernels /\ Len(stack) = 1 /\ top.pc = 1)
                => Remaining = Steps(entry, 0))

\* c128 has reached its deepest nesting, c4 called through c64, c32, c16 and
\* c8, with 9 of its 228 steps left.
C13_witness ==
    /\ entry = "c128" /\ Running /\ top.fn = "c4"
    /\ KernelDepth = 6
    /\ Remaining < 10

\* C14: during a call of cN, N >= 16, on a buffer with components in [0, P],
\* every butterfly is called with four arguments whose components lie in
\* [0, P], so that no range assertion of transform fails.
C14_butterfly_arguments_reduced ==
    (entry \in Kernels /\ Running /\ CallsButterfly(top)) =>
        /\ ArgumentsReduced(PendingButterfly(top))
        /\ ~RangeFails(top)

\* Inside c64, the cpass of c32 is about to call transform on elements of
\* which the cpass of c64 has rewritten at least one.
C14_witness ==
    /\ entry = "c64" /\ Running /\ top.fn = "cpass" /\ top.n = 32 /\ top.pc = 2
    /\ \E k \in 1 .. 4 : a[PendingButterfly(top)[2][k]] # x[PendingButterfly(top)[2][k]]

\* The slices of the sub-kernel calls of a frame: <<first, length>>.
SubSlices(f) ==
    LET cs == IF f.fn = "c16" THEN c16_calls ELSE Wrapper(f.fn).calls
    IN  [k \in 1 .. 3 |->
            << cs[k].off, IF cs[k].n < 0 THEN f.n - cs[k].off ELSE cs[k].n >>]

SliceSet(sl) == sl[1] .. sl[1] + sl[2] - 1

\* C15: when cN is called with a buffer of exactly N elements, no structural
\* assertion fails in any nested call: every kernel receives a slice of its
\* size, every cpass receives a slice of 8n elements, n >= 2, and a table of
\* 2n-1 entries, and the three sub-slices of one level are pairwise disjoint
\* and cover the slice.
C15_structure ==
    (entry \in Kernels /\ Running) =>
        /\ ~AssertFails(top)
        /\ top.fn \in Kernels => top.n = Size(top.fn)
        /\ top.fn = "cpass" =>
                /\ top.n % 8 = 0 /\ top.n \div 8 >= 2
                /\ DOMAIN TableOf(top.w) = 0 .. 2 * (top.n \div 8) - 2
        /\ top.fn \in Ladder \cup {"c16"} =>
                /\ \A i, j \in 1 .. 3 :
                        i # j => SliceSet(SubSlices(top)[i]) \cap SliceSet(SubSlices(top)[j]) = {}
                /\ UNION {SliceSet(SubSlices(top)[i]) : i \in 1 .. 3} = 0 .. top.n - 1

\* Inside c256, c64 on a[128..192] has just called cpass with D64.
C15_witness ==
    /\ entry = "c256" /\ Len(stack) = 3
    /\ top.fn = "cpass" /\ top.w = "D64" /\ top.lo = 128 /\ top.n = 64 /\ top.pc = 1

\* k * P as an accumulator value.
TimesP(k) == IF k < 0 THEN BNeg(BMulNat(BP, Big(-k))) ELSE BMulNat(BP, Big(k))

\* Both components of c lie in [lo * P, hi * P].
CBetween(c, lo, hi) ==
    /\ BLeq(TimesP(lo), c.re) /\ BLeq(c.re, TimesP(hi))
    /\ BLeq(TimesP(lo), c.im) /\ BLeq(c.im, TimesP(hi))

AllBetween(first, n, lo, hi) ==
    \A i \in first .. first + n - 1 : CBetween(a[i], lo, hi)

InC8 == Len(stack) >= 2 /\ stack[2].fn = "c8"

\* C16: a kernel called on reduced input returns every component in
\* [-4P, 8P]; the positions not last written by c4, among them a[4..8] of
\* every c8 block, are in [0, P]; c4 called on reduced input leaves values in
\* [-2P, 4P], and c4 called by c8 receives sums in [0, 2P] and leaves values
\* in [-4P, 8P].
C16_output_ranges ==
    (entry \in Kernels /\ run = "main") =>
        /\ Done =>
                \A i \in DOMAIN a :
                    /\ CBetween(a[i], -4, 8)
                    /\ i \notin sealed => CReduced(a[i])
        /\ (Running /\ top.fn = "c8" /\ top.pc > 3) =>
                /\ AllBetween(top.lo + 4, 4, 0, 1)
                /\ AllBetween(top.lo, 4, -4, 8)
        /\ (Running /\ top.fn = "c4" /\ top.pc = 1) =>
                AllBetween(top.lo, 4, 0, IF InC8 THEN 2 ELSE 1)
        /\ (Running /\ top.fn = "c4" /\ top.pc > 1) =>
                IF InC8 THEN AllBetween(top.lo, 4, -4, 8)
                        ELSE AllBetween(top.lo, 4, -2, 4)

\* c8 has returned a negative and an above-P component in a[0..4], and
\* a[4..8] reduced.
C16_witness ==
    /\ entry = "c8" /\ run = "main" /\ Done /\ sealed = 0 .. 3
    /\ \E i \in 0 .. 3 : BIsNeg(a[i].re) \/ BIsNeg(a[i].im)
    /\ \E i \in 0 .. 3 : ~BLeq(a[i].re, BP)
    /\ AllBetween(4, 4, 0, 1)

\* The positions the statement a frame is at reads or writes.
Footprint(f) ==
    CASE f.fn = "c4" /\ f.pc = 1 -> f.lo .. f.lo + 3
      [] f.fn = "c8" /\ f.pc = 1 -> f.lo .. f.lo + 7
      [] f.fn = "c8" /\ f.pc = 3 -> f.lo + 4 .. f.lo + f.n - 1
      [] f.fn \in {"c16", "cpass"} /\ CallsButterfly(f) ->
            { PendingButterfly(f)[2][k] : k \in 1 .. 4 }
      [] OTHER -> {}

\* The positions c4 has written that a step of the frame on top could reach:
\* all of them, and for c2048 and c4096 those of the slice the frame holds.
Reachable ==
    IF entry \in {"c2048", "c4096"}
    THEN { i \in top.lo .. top.lo + top.n - 1 : i \in sealed }
    ELSE sealed

\* C17: once c4 has written a block, no later step of the invocation reads
\* or writes a position of it: the statement a frame is at never touches a
\* position c4 has written, and no step changes the value at one.
C17_c4_outputs_final ==
    /\ []((entry \in Kernels /\ Running) => Footprint(top) \cap sealed = {})
    /\ [][Running => \A i \in Reachable : a'[i] = a[i]]_vars
    /\ [][sealed \subseteq sealed']_vars

\* Inside c32, the second c8 has run normalise_all on a[28..32] after c4 has
\* left unreduced values in a[16..20] and a[24..28].
C17_witness ==
    /\ entry = "c32" /\ Running /\ top.fn = "c8" /\ top.lo = 24 /\ top.pc = 4
    /\ sealed = (16 .. 19) \cup (24 .. 27)
    /\ \E i \in 16 .. 19 : ~CReduced(a[i])
    /\ \E i \in 24 .. 27 : ~CReduced(a[i])

====
